---------------------------- MODULE Spec2Model ----------------------------
(***************************************************************************)
(* A model of the EasyWords add-on: the field-mapping resolver             *)
(* (src/note_type.py over src/config.py), the dictionary resolution engine *)
(* (src/dictionary/lookup.py) and the audio manager (src/tts/manager.py).  *)
(*                                                                         *)
(* Python values are modelled as follows.  A dict is a TLA+ function, an   *)
(* ordered dict or a list is a sequence, and Python's None is the record   *)
(* None below, which is different from every dict, the empty dict <<>>     *)
(* included.                                                               *)
(***************************************************************************)
EXTENDS Integers, Sequences, FiniteSets, TLC

VARIABLES
    field_mappings,       \* config 'field_mappings': note type name -> raw mapping
    last_resolve,         \* observation: the last get_mapped_fields call and its result
    mdx_paths,            \* config 'mdx_paths': ordered list of dictionary file paths
    dictionary_mode,      \* config 'dictionary_mode'
    online_dictionaries,  \* config 'online_dictionaries': ordered list of dict configs
    parsers,              \* lookup._parsers: the keys of the dict, in insertion order
    online_cache,         \* lookup._online_cache: word -> result or None
    online_done,          \* history: word -> value of its first completed online lookup
    load_failed,          \* history: the paths whose load has failed in this session
    last_lookup,          \* observation: the last lookup call and what it did
    cache_audio,          \* config 'cache_audio'
    tts_engine,           \* config 'tts_engine'
    tts_voice,            \* config 'tts_voice'
    tts_speed,            \* config 'tts_speed'
    available,            \* environment: the set of engines whose is_available() is true
    media,                \* environment: the audio files present in the media folder
    pinned,               \* history: one earlier generate_audio call that made its file
    last_audio,           \* observation: the last audio manager call and what it did
    auto_generate_audio_on_add, \* config 'auto_generate_audio_on_add'
    bg,                   \* the background audio operation and the retry chain around it
    last_fill,            \* observation: the last fill call and what it did
    run,                  \* a batch run of BatchDialog.start_processing, note by note
    ai_cache,             \* OpenAIClient._cache: the entries in insertion order
    ai_contacts,          \* history: the number of requests sent to the AI service
    last_ai,              \* observation: the last suggest_fields call and what it did
    ai_fill               \* the AI fill of the editor's note and its background request

mapVars  == <<field_mappings, last_resolve>>
dictVars == <<mdx_paths, dictionary_mode, online_dictionaries, parsers,
              online_cache, online_done, load_failed, last_lookup>>
ttsVars  == <<cache_audio, tts_engine, tts_voice, tts_speed, available, media,
              pinned, last_audio>>
fillVars == <<auto_generate_audio_on_add, bg, last_fill, run>>
aiVars   == <<ai_cache, ai_contacts, last_ai, ai_fill>>
vars     == <<mapVars, dictVars, ttsVars, fillVars, aiVars>>

\* Python's None.
None == [none |-> TRUE]

\* Python's None where the other values are strings.
NoneStr == "<None>"

\* Python truthiness of an Optional[dict]: None and the empty dict are falsy.
Truthy(d) == d # None /\ DOMAIN d # {}

\* An observation variable between calls, and the state in which no call's
\* result is waiting to be read by its caller.
NoCall == [called |-> FALSE]

\* No background audio operation, and no batch run.
NoBg == [state |-> "none"]
NoRun == [phase |-> "none"]
NoAiFill == [state |-> "none"]
Idle ==
    /\ last_resolve = NoCall /\ last_lookup = NoCall /\ last_audio = NoCall
    /\ last_fill = NoCall /\ bg.state = "none" /\ run.phase = "none"
    /\ last_ai = NoCall /\ ai_fill.state = "none"

\* The elements of a sequence.
Range(s) == {s[i] : i \in 1..Len(s)}

(***************************************************************************)
(* 1.  Field-mapping resolver                                              *)
(***************************************************************************)

NOTE_TYPE_NAME == "EasyWords Vocabulary"

FIELD_WORD       == "Word"
FIELD_PHONETIC   == "Phonetic"
FIELD_DEFINITION == "Definition"
FIELD_EXAMPLE    == "Example"
FIELD_AUDIO      == "Audio"

FIELD_NAMES ==
    <<FIELD_WORD, FIELD_PHONETIC, FIELD_DEFINITION, FIELD_EXAMPLE, FIELD_AUDIO>>

\* The note type names of the collection.
NoteTypes == {NOTE_TYPE_NAME, "Basic"}

\* The field names a mapping may target.
Targets == {"Front", "Back"}

\* The most role entries the configuration holds, over all note types.
MaxMapEntries == 2

\* A raw value of one role in the configuration document: the legacy form (a
\* plain string, the target) or the enhanced form (a dict with 'target' and,
\* optionally, 'enabled').
RawValues ==
    [isdict : {FALSE}, target : Targets]
    \cup [isdict : {TRUE}, target : Targets]
    \cup [isdict : {TRUE}, target : Targets, enabled : BOOLEAN]

\* The raw mappings of one note type with at most n roles.
RawMappings(n) ==
    UNION {[rs -> RawValues] :
             rs \in {s \in SUBSET Range(FIELD_NAMES) : Cardinality(s) <= n}}

\* dict.get('enabled', True) on an enhanced value.
EnabledOf(v) == IF "enabled" \in DOMAIN v THEN v.enabled ELSE TRUE

\* Config.get_field_mapping: normalise the raw mapping of a note type and keep
\* the enabled roles; the empty dict if the note type has no mapping.
get_field_mapping(mappings, note_type_name) ==
    LET raw_mapping == IF note_type_name \in DOMAIN mappings
                       THEN mappings[note_type_name] ELSE <<>>
        kept == {r \in DOMAIN raw_mapping :
                    raw_mapping[r].isdict => EnabledOf(raw_mapping[r])}
    IN  [r \in kept |-> raw_mapping[r].target]

\* is_easywords_note.
is_easywords_note(note) == note.type = NOTE_TYPE_NAME

\* get_mapped_fields: the configured mapping if it is truthy, else the canonical
\* mapping for the built-in note type, else the roles found by field name if
\* Word is among them, else None.
get_mapped_fields(mappings, note) ==
    LET mapping == get_field_mapping(mappings, note.type)
        found   == {f \in Range(FIELD_NAMES) : f \in note.keys}
    IN  IF Truthy(mapping) THEN mapping
        ELSE IF is_easywords_note(note) THEN [f \in Range(FIELD_NAMES) |-> f]
        ELSE IF FIELD_WORD \in found THEN [f \in found |-> f]
        ELSE None

\* The notes the resolver is asked about: a note type name and the note's keys.
NoteKeySets ==
    { {"Front", "Back"},
      Range(FIELD_NAMES),
      {FIELD_WORD, "Back"},
      {FIELD_PHONETIC, FIELD_AUDIO, "Back"} }

Notes == [type : NoteTypes, keys : NoteKeySets]

\* The number of role entries in the configuration.
MapEntries(mappings) ==
    LET RECURSIVE Sum(_)
        Sum(S) == IF S = {} THEN 0
                  ELSE LET t == CHOOSE t \in S : TRUE
                       IN  Cardinality(DOMAIN mappings[t]) + Sum(S \ {t})
    IN  Sum(DOMAIN mappings)

InitMap ==
    /\ field_mappings = <<>>
    /\ last_resolve = NoCall

\* Config.set_field_mapping(note_type_name, mapping).
SetFieldMapping(note_type_name, mapping) ==
    /\ Idle
    /\ field_mappings' = [t \in DOMAIN field_mappings \cup {note_type_name} |->
                            IF t = note_type_name THEN mapping ELSE field_mappings[t]]
    /\ MapEntries(field_mappings') <= MaxMapEntries
    /\ UNCHANGED <<aiVars, fillVars, last_resolve, dictVars, ttsVars>>

\* A call get_mapped_fields(note).
GetMappedFields(note) ==
    /\ Idle
    /\ last_resolve' = [called |-> TRUE, note |-> note,
                        result |-> get_mapped_fields(field_mappings, note)]
    /\ UNCHANGED <<aiVars, fillVars, field_mappings, dictVars, ttsVars>>


(***************************************************************************)
(* 2.  Dictionary resolution engine                                        *)
(***************************************************************************)

\* The dictionary files of the model and the words looked up.
Paths == {"a.mdx", "b.mdx"}
Words == {"", "cat", "dog"}

\* The keys of each dictionary file's word table.
Entries(path) == IF path = "a.mdx" THEN {"cat"} ELSE {"cat", "dog"}

\* The most configured sources, local paths and online entries together.
MaxSources == 2

DictionaryModes == {"local", "online", "auto"}

\* The values the config key 'dictionary_mode' holds in the model: the three
\* modes and a value that is none of them.
StoredModes == DictionaryModes \cup {"offline"}

\* config.get_dictionary_mode: the stored value, "auto" for any value that is
\* not a mode.
get_dictionary_mode(stored) ==
    IF stored \notin DictionaryModes THEN "auto" ELSE stored

\* config.set_dictionary_mode: the value that is stored.
set_dictionary_mode(mode) ==
    IF mode \notin DictionaryModes THEN "auto" ELSE mode

\* The online dictionary configs of the model: 'type' selects the adapter in
\* create_online_dictionary, 'enabled' may be missing.
OnlineConfigs ==
    { [type |-> "free_dictionary", enabled |-> TRUE],
      [type |-> "wiktionary",      enabled |-> TRUE],
      [type |-> "free_dictionary", enabled |-> FALSE],
      [type |-> "custom",          enabled |-> TRUE],
      [type |-> "wiktionary"] }

\* What one adapter.lookup call does: a result, None, or an exception.
Outcomes == {"hit", "none", "error"}

\* The sequences over S of length at most n.
SeqsUpTo(S, n) == UNION {[1..k -> S] : k \in 0..n}

\* MDXParser._parse_html on the entry of `word` in the file `path`, with the
\* raw markup added by MDXParser.lookup.  The entries of b.mdx have a phonetic
\* between slashes and an example span, those of a.mdx have neither.
LocalResult(path, word) ==
    [phonetic |-> IF path = "b.mdx" THEN "/" \o word \o "/" ELSE "",
     definition |-> path \o ":" \o word,
     example |-> IF path = "b.mdx" THEN "A " \o word \o "." ELSE "",
     html |-> "<p>" \o path \o ":" \o word \o "</p>"]

\* MDXParser.lookup on a loaded parser: the entry's result, or None.
parser_lookup(path, word) ==
    IF word \in Entries(path) THEN LocalResult(path, word) ELSE None

\* The result an online adapter builds on a hit.
OnlineResult(type, word) ==
    [phonetic |-> "", definition |-> type \o ":" \o word, example |-> ""]

\* A faulty get_fallback_result: no result at all.
get_fallback_result_none(word) == None

\* get_fallback_result.
get_fallback_result(word) ==
    [phonetic |-> "", definition |-> "", example |-> ""]

\* create_online_dictionary: an adapter for the two known types, else None.  An
\* adapter is named by its type.
create_online_dictionary(dict_config) ==
    IF dict_config.type \in {"free_dictionary", "wiktionary"}
    THEN dict_config.type ELSE NoneStr

\* dict_config.get('enabled', False).
OnlineEnabled(dict_config) ==
    IF "enabled" \in DOMAIN dict_config THEN dict_config.enabled ELSE FALSE

\* The first loop of get_parsers: each configured path not in the table is
\* loaded and, if the load succeeds, appended to the table.
RECURSIVE LoadNew(_, _, _)
LoadNew(table, paths, loadable) ==
    IF paths = <<>> THEN table
    ELSE LET path == Head(paths)
         IN  IF path \notin Range(table) /\ path \in loadable
             THEN LoadNew(Append(table, path), Tail(paths), loadable)
             ELSE LoadNew(table, Tail(paths), loadable)

\* The paths for which the first loop of get_parsers calls create_parser and
\* load, in the order of the calls.
RECURSIVE LoadAttempts(_, _, _)
LoadAttempts(table, paths, loadable) ==
    IF paths = <<>> THEN <<>>
    ELSE LET path == Head(paths)
         IN  IF path \in Range(table)
             THEN LoadAttempts(table, Tail(paths), loadable)
             ELSE <<path>> \o LoadAttempts(IF path \in loadable THEN Append(table, path)
                                           ELSE table,
                                           Tail(paths), loadable)

\* A faulty get_parsers: every configured path is loaded again at each call.
get_parsers_reload(table, paths, loadable) ==
    IF paths = <<>>
    THEN [table |-> table, returned |-> <<>>, closed |-> {}, attempted |-> <<>>]
    ELSE LET loaded == LoadNew(<<>>, paths, loadable \cup Range(table))
         IN  [table |-> loaded, returned |-> loaded,
              closed |-> Range(table) \ Range(paths),
              attempted |-> LoadAttempts(<<>>, paths, loadable \cup Range(table))]

\* get_parsers: nothing is done for an empty path list; else new paths are
\* loaded, parsers of paths no longer configured are closed and deleted, and
\* the table's values are returned in the table's order.
get_parsers(table, paths, loadable) ==
    IF paths = <<>>
    THEN [table |-> table, returned |-> <<>>, closed |-> {}, attempted |-> <<>>]
    ELSE LET loaded == LoadNew(table, paths, loadable)
             kept   == SelectSeq(loaded, LAMBDA p : p \in Range(paths))
         IN  [table |-> kept, returned |-> kept,
              closed |-> Range(loaded) \ Range(paths),
              attempted |-> LoadAttempts(table, paths, loadable)]

\* The loop over the parsers in lookup_word: the parsers consulted, in order,
\* up to the first one with a result.
RECURSIVE LocalScan(_, _, _)
LocalScan(ps, word, consulted) ==
    IF ps = <<>> THEN [result |-> None, consulted |-> consulted]
    ELSE LET r == parser_lookup(Head(ps), word)
         IN  IF r # None
             THEN [result |-> r, consulted |-> Append(consulted, Head(ps))]
             ELSE LocalScan(Tail(ps), word, Append(consulted, Head(ps)))

\* A faulty online loop: a result does not end the loop, the last one wins.
RECURSIVE OnlineScanLastHit(_, _, _, _, _, _)
OnlineScanLastHit(i, word, cache, dicts, outcome, invoked) ==
    IF i > Len(dicts)
    THEN [result |-> IF word \in DOMAIN cache THEN cache[word] ELSE None,
          cache |-> cache @@ (word :> None), invoked |-> invoked]
    ELSE IF ~OnlineEnabled(dicts[i]) \/ create_online_dictionary(dicts[i]) = NoneStr
    THEN OnlineScanLastHit(i + 1, word, cache, dicts, outcome, invoked)
    ELSE IF outcome[i] = "hit"
    THEN OnlineScanLastHit(i + 1, word,
                           (word :> OnlineResult(dicts[i].type, word)) @@ cache,
                           dicts, outcome, Append(invoked, [i |-> i, did |-> "hit"]))
    ELSE OnlineScanLastHit(i + 1, word, cache, dicts, outcome,
                           Append(invoked, [i |-> i, did |-> outcome[i]]))

\* A faulty online loop: a word that no adapter has is not cached.
RECURSIVE OnlineScanNoNegative(_, _, _, _, _, _)
OnlineScanNoNegative(i, word, cache, dicts, outcome, invoked) ==
    IF i > Len(dicts)
    THEN [result |-> None, cache |-> cache, invoked |-> invoked]
    ELSE IF ~OnlineEnabled(dicts[i]) \/ create_online_dictionary(dicts[i]) = NoneStr
    THEN OnlineScanNoNegative(i + 1, word, cache, dicts, outcome, invoked)
    ELSE IF outcome[i] = "hit"
    THEN LET result == OnlineResult(dicts[i].type, word)
         IN  [result |-> result, cache |-> (word :> result) @@ cache,
              invoked |-> Append(invoked, [i |-> i, did |-> "hit"])]
    ELSE OnlineScanNoNegative(i + 1, word, cache, dicts, outcome,
                              Append(invoked, [i |-> i, did |-> outcome[i]]))

\* The loop over the online dictionaries in lookup_word_online, from entry i:
\* disabled entries and entries without an adapter are skipped, an adapter that
\* raises or returns None is passed over, the first result is cached and
\* returned; after the loop None is cached and returned.  `invoked` lists the
\* adapter calls made, in order, each with what it did.
RECURSIVE OnlineScan(_, _, _, _, _, _)
OnlineScan(i, word, cache, dicts, outcome, invoked) ==
    IF i > Len(dicts)
    THEN [result |-> None, cache |-> (word :> None) @@ cache, invoked |-> invoked]
    ELSE IF ~OnlineEnabled(dicts[i]) \/ create_online_dictionary(dicts[i]) = NoneStr
    THEN OnlineScan(i + 1, word, cache, dicts, outcome, invoked)
    ELSE IF outcome[i] = "hit"
    THEN LET result == OnlineResult(dicts[i].type, word)
         IN  [result |-> result, cache |-> (word :> result) @@ cache,
              invoked |-> Append(invoked, [i |-> i, did |-> "hit"])]
    ELSE OnlineScan(i + 1, word, cache, dicts, outcome,
                    Append(invoked, [i |-> i, did |-> outcome[i]]))

\* A faulty lookup_word_online: a cached None does not count as cached.
lookup_word_online_positive(word, cache, dicts, outcome) ==
    IF word = "" THEN [result |-> None, cache |-> cache, invoked |-> <<>>]
    ELSE IF word \in DOMAIN cache /\ cache[word] # None
    THEN [result |-> cache[word], cache |-> cache, invoked |-> <<>>]
    ELSE OnlineScan(1, word, cache, dicts, outcome, <<>>)

\* lookup_word_online: None for an empty word, the cached value for a cached
\* word, else the scan of the configured online dictionaries.
lookup_word_online(word, cache, dicts, outcome) ==
    IF word = "" THEN [result |-> None, cache |-> cache, invoked |-> <<>>]
    ELSE IF word \in DOMAIN cache
    THEN [result |-> cache[word], cache |-> cache, invoked |-> <<>>]
    ELSE OnlineScan(1, word, cache, dicts, outcome, <<>>)

\* What a call that does not reach the local sources, or the online sources,
\* reports of them.
NoLocal(table) ==
    [table |-> table, synced |-> FALSE, returned |-> <<>>, consulted |-> <<>>,
     closed |-> {}, attempted |-> <<>>]
NoOnline(cache) ==
    [cache |-> cache, online_called |-> FALSE, invoked |-> <<>>,
     online_result |-> None]

\* The online part of lookup_word in online and auto mode.
OnlinePart(word, cache, dicts, outcome) ==
    LET o == lookup_word_online(word, cache, dicts, outcome)
    IN  [result |-> IF Truthy(o.result) THEN o.result ELSE get_fallback_result(word),
         cache |-> o.cache, online_called |-> TRUE, invoked |-> o.invoked,
         online_result |-> o.result]

\* A faulty lookup_word in local mode: a word without a local result is
\* answered from the online cache.
lookup_word_local_cached(word, table, paths, loadable, cache) ==
    LET g == get_parsers(table, paths, loadable)
        l == LocalScan(g.returned, word, <<>>)
        c == IF word \in DOMAIN cache THEN cache[word] ELSE None
    IN  [result |-> IF Truthy(l.result) THEN l.result
                    ELSE IF Truthy(c) THEN c ELSE get_fallback_result(word),
         table |-> g.table, synced |-> TRUE, returned |-> g.returned,
         consulted |-> l.consulted, closed |-> g.closed,
         attempted |-> g.attempted,
         online_called |-> ~Truthy(l.result), online_result |-> c]
        @@ NoOnline(cache)

\* lookup_word in local mode.
lookup_word_local(word, table, paths, loadable, cache) ==
    LET g == get_parsers(table, paths, loadable)
        l == LocalScan(g.returned, word, <<>>)
    IN  [result |-> IF Truthy(l.result) THEN l.result ELSE get_fallback_result(word),
         table |-> g.table, synced |-> TRUE, returned |-> g.returned,
         consulted |-> l.consulted, closed |-> g.closed,
         attempted |-> g.attempted] @@ NoOnline(cache)

\* lookup_word in online mode.
lookup_word_online_mode(word, table, cache, dicts, outcome) ==
    OnlinePart(word, cache, dicts, outcome) @@ NoLocal(table)

\* A faulty lookup_word in auto mode: the online sources are asked first.
lookup_word_auto_online_first(word, table, paths, loadable, cache, dicts, outcome) ==
    LET g == get_parsers(table, paths, loadable)
        l == LocalScan(g.returned, word, <<>>)
        local == [table |-> g.table, synced |-> TRUE, returned |-> g.returned,
                  consulted |-> l.consulted, closed |-> g.closed,
                  attempted |-> g.attempted]
        o == OnlinePart(word, cache, dicts, outcome)
    IN  IF Truthy(o.online_result) THEN o @@ local
        ELSE IF Truthy(l.result) THEN [result |-> l.result] @@ o @@ local
        ELSE o @@ local

\* lookup_word in auto mode: the local sources first, the online sources only
\* if no parser has a result.
lookup_word_auto(word, table, paths, loadable, cache, dicts, outcome) ==
    LET g == get_parsers(table, paths, loadable)
        l == LocalScan(g.returned, word, <<>>)
        local == [table |-> g.table, synced |-> TRUE, returned |-> g.returned,
                  consulted |-> l.consulted, closed |-> g.closed,
                  attempted |-> g.attempted]
    IN  IF Truthy(l.result)
        THEN [result |-> l.result] @@ local @@ NoOnline(cache)
        ELSE OnlinePart(word, cache, dicts, outcome) @@ local

\* lookup_word: None for an empty word, else by the mode that
\* get_dictionary_mode makes of the stored value `stored`.
lookup_word(word, stored, table, paths, loadable, cache, dicts, outcome) ==
    LET mode == get_dictionary_mode(stored)
    IN  IF word = "" THEN [result |-> None] @@ NoLocal(table) @@ NoOnline(cache)
        ELSE IF mode = "local"
        THEN lookup_word_local(word, table, paths, loadable, cache)
        ELSE IF mode = "online"
        THEN lookup_word_online_mode(word, table, cache, dicts, outcome)
        ELSE lookup_word_auto(word, table, paths, loadable, cache, dicts, outcome)

\* The entries of the online list whose adapter a scan may call.
Callable(dicts) ==
    {i \in 1..Len(dicts) :
        OnlineEnabled(dicts[i]) /\ create_online_dictionary(dicts[i]) # NoneStr}

InitTables ==
    /\ mdx_paths = <<>>
    /\ online_dictionaries = <<>>
    /\ parsers = <<>>
    /\ online_cache = <<>>
    /\ online_done = <<>>
    /\ load_failed = {}
    /\ last_lookup = NoCall

InitDict == InitTables /\ dictionary_mode = "auto"

\* reload_dictionaries: every parser is closed, both tables are cleared.
reload_dictionaries ==
    /\ parsers' = <<>>
    /\ online_cache' = <<>>
    /\ online_done' = <<>>

\* A call of reload_dictionaries on its own.
ReloadDictionaries ==
    /\ Idle
    /\ reload_dictionaries
    /\ UNCHANGED <<aiVars, fillVars, mdx_paths, dictionary_mode, online_dictionaries,
                   load_failed, last_lookup, mapVars, ttsVars>>

\* Config.add_mdx_path.
AddMdxPath(path) ==
    /\ Idle
    /\ path \notin Range(mdx_paths)
    /\ Len(mdx_paths) + Len(online_dictionaries) < MaxSources
    /\ mdx_paths' = Append(mdx_paths, path)
    /\ UNCHANGED <<aiVars, fillVars, dictionary_mode, online_dictionaries, parsers, online_cache,
                   online_done, load_failed, last_lookup, mapVars, ttsVars>>

\* Config.remove_mdx_path: list.remove deletes the first occurrence.
RemoveMdxPath(path) ==
    /\ Idle
    /\ path \in Range(mdx_paths)
    /\ LET i == CHOOSE i \in 1..Len(mdx_paths) :
                    mdx_paths[i] = path /\ \A j \in 1..(i - 1) : mdx_paths[j] # path
       IN  mdx_paths' = SubSeq(mdx_paths, 1, i - 1)
                          \o SubSeq(mdx_paths, i + 1, Len(mdx_paths))
    /\ UNCHANGED <<aiVars, fillVars, dictionary_mode, online_dictionaries, parsers, online_cache,
                   online_done, load_failed, last_lookup, mapVars, ttsVars>>

\* The lists OnlineDictDialog edits: add_dictionary refuses a type that is
\* already in the list, so no two entries have the same type.
OnlineLists(n) ==
    {dicts \in SeqsUpTo(OnlineConfigs, n) :
       \A j, k \in 1..Len(dicts) : j # k => dicts[j].type # dicts[k].type}

\* OnlineDictDialog.save_config: the edited list replaces the configured one.
SaveOnlineDictionaries(dicts) ==
    /\ Idle
    /\ Len(mdx_paths) + Len(dicts) <= MaxSources
    /\ online_dictionaries' = dicts
    /\ UNCHANGED <<aiVars, fillVars, mdx_paths, dictionary_mode, parsers, online_cache, online_done, load_failed,
                   last_lookup, mapVars, ttsVars>>

\* A call lookup_word(word).  `loadable` is the set of paths whose load
\* succeeds during the call, outcome[i] what the adapter of entry i does.
LookupWord(word, loadable, outcome) ==
    LET r == lookup_word(word, dictionary_mode, parsers, mdx_paths, loadable,
                         online_cache, online_dictionaries, outcome)
        prior == IF word \in DOMAIN online_done THEN {online_done[word]} ELSE {}
    IN  /\ Idle
        /\ parsers' = r.table
        /\ load_failed' = load_failed \cup (Range(r.attempted) \ loadable)
        /\ online_cache' = r.cache
        /\ online_done' = IF r.online_called /\ word # "" /\ prior = {}
                          THEN (word :> r.online_result) @@ online_done
                          ELSE online_done
        /\ last_lookup' = [called |-> TRUE, fn |-> "lookup_word", word |-> word,
                           mode |-> get_dictionary_mode(dictionary_mode),
                           result |-> r.result,
                           synced |-> r.synced, returned |-> r.returned,
                           consulted |-> r.consulted, closed |-> r.closed,
                           attempted |-> r.attempted, table_before |-> parsers,
                           online_called |-> r.online_called, prior |-> prior,
                           online_result |-> r.online_result,
                           invoked |-> r.invoked, cache_before |-> online_cache]
        /\ UNCHANGED <<aiVars, fillVars, mdx_paths, dictionary_mode, online_dictionaries, mapVars, ttsVars>>

\* A call lookup_word_online(word) from outside lookup_word.
LookupWordOnline(word, outcome) ==
    LET o == lookup_word_online(word, online_cache, online_dictionaries, outcome)
        prior == IF word \in DOMAIN online_done THEN {online_done[word]} ELSE {}
    IN  /\ Idle
        /\ online_cache' = o.cache
        /\ online_done' = IF word # "" /\ prior = {}
                          THEN (word :> o.result) @@ online_done
                          ELSE online_done
        /\ last_lookup' = [called |-> TRUE, fn |-> "lookup_word_online",
                           word |-> word,
                           mode |-> get_dictionary_mode(dictionary_mode),
                           result |-> o.result, synced |-> FALSE,
                           returned |-> <<>>, consulted |-> <<>>, closed |-> {},
                           attempted |-> <<>>, table_before |-> parsers,
                           online_called |-> TRUE, prior |-> prior,
                           online_result |-> o.result, invoked |-> o.invoked,
                           cache_before |-> online_cache]
        /\ UNCHANGED <<aiVars, fillVars, mdx_paths, dictionary_mode, online_dictionaries, parsers,
                       load_failed,
                       mapVars, ttsVars>>

(***************************************************************************)
(* 2a.  MDXParser.lookup on the word table of one dictionary               *)
(***************************************************************************)

\* Words and keys are sequences of characters.  The characters of the model:
\* an upper-case and a lower-case letter, a punctuation mark, a blank and a
\* hyphen; and the most characters of a looked-up word.
MdxChars == {"H", "h", "!", " ", "-"}
MaxWord == 3

\* str.lower and str.strip.
lower(w) == [k \in 1..Len(w) |-> IF w[k] = "H" THEN "h" ELSE w[k]]

RECURSIVE strip(_)
strip(w) ==
    IF w = <<>> THEN w
    ELSE IF Head(w) = " " THEN strip(Tail(w))
    ELSE IF w[Len(w)] = " " THEN strip(SubSeq(w, 1, Len(w) - 1))
    ELSE w

\* re.sub(r'[^\w\s-]', '', word_lower): letters, blanks and hyphens stay.
clean(w) == SelectSeq(w, LAMBDA c : c \in {"H", "h", " ", "-"})

\* The keys of the dictionary file, as the file spells them, and the values of
\* an entry: an empty value, or the markup of the entry.
RawKeys == {<<"H">>, <<"h", "!">>}
Markup(key) == IF key = <<"H">> THEN "<p>hello</p>" ELSE "<p>hello!</p>"
RawTables ==
    UNION {{raw \in [keys -> {"", "<p>hello</p>", "<p>hello!</p>"}] :
               \A key \in keys : raw[key] \in {"", Markup(key)}} :
           keys \in SUBSET RawKeys}

\* The loop of MDXParser.load: every key is stored in lower case.
load(raw) ==
    [k \in {lower(key) : key \in DOMAIN raw} |->
        raw[CHOOSE key \in DOMAIN raw : lower(key) = k]]

\* dict.get(key), and `not value` for a value or None.
Get_(d, key) == IF key \in DOMAIN d THEN d[key] ELSE NoneStr
Falsy(value) == value \in {NoneStr, ""}

\* A faulty lookup: the word is cleaned before the first match.
MDXParser_lookup_clean_first(word_dict, word) ==
    LET word_lower == strip(lower(word))
        html_content == Get_(word_dict, clean(word_lower))
    IN  IF word_lower = <<>> \/ Falsy(html_content) THEN NoneStr ELSE html_content

\* MDXParser.lookup on a loaded parser: the markup of the result, or None.
MDXParser_lookup(word_dict, word) ==
    LET word_lower == strip(lower(word))
        first == Get_(word_dict, word_lower)
        html_content == IF Falsy(first) THEN Get_(word_dict, clean(word_lower)) ELSE first
    IN  IF word_lower = <<>> \/ Falsy(html_content) THEN NoneStr ELSE html_content

\* A call parser.lookup(word) on a parser that has loaded the table `raw`.
MdxLookup(raw, word) ==
    /\ Idle
    /\ last_lookup' = [called |-> TRUE, fn |-> "MDXParser.lookup", word |-> word,
                       word_dict |-> load(raw),
                       result |-> MDXParser_lookup(load(raw), word)]
    /\ UNCHANGED <<aiVars, fillVars, mdx_paths, dictionary_mode, online_dictionaries, parsers,
                   online_cache, online_done, load_failed, mapVars, ttsVars>>

(***************************************************************************)
(* 2b.  The AI client                                                      *)
(***************************************************************************)

\* OpenAIClient._max_cache_size.
max_cache_size == 256

\* The place of a role suggest_fields is asked for in Python's order of
\* strings.
Rank(role) == IF role = FIELD_DEFINITION THEN 1 ELSE 2

\* sorted(fields), by insertion.
RECURSIVE InsertSorted(_, _)
InsertSorted(role, sorted) ==
    IF sorted = <<>> THEN <<role>>
    ELSE IF Rank(role) <= Rank(Head(sorted)) THEN <<role>> \o sorted
    ELSE <<Head(sorted)>> \o InsertSorted(role, Tail(sorted))

RECURSIVE Sorted(_)
Sorted(fields) ==
    IF fields = <<>> THEN <<>> ELSE InsertSorted(Head(fields), Sorted(Tail(fields)))

\* ','.join(names).
RECURSIVE Join(_)
Join(names) ==
    IF names = <<>> THEN ""
    ELSE IF Len(names) = 1 THEN names[1]
    ELSE names[1] \o "," \o Join(Tail(names))

\* A faulty _get_cache_key: the fields are joined in the order given.
get_cache_key_unsorted(word, fields) == word \o ":" \o Join(fields)

\* _get_cache_key.
get_cache_key(word, fields) == word \o ":" \o Join(Sorted(fields))

\* _get_from_cache: dict.get on the entries; None if the key is absent.
get_from_cache(cache, key) ==
    IF \E k \in 1..Len(cache) : cache[k].key = key
    THEN cache[CHOOSE k \in 1..Len(cache) : cache[k].key = key].value
    ELSE None

\* cls._cache[key] = result: the value of a present key is replaced where it
\* is, a new key is added at the end.
Put(cache, key, result) ==
    IF \E k \in 1..Len(cache) : cache[k].key = key
    THEN [k \in 1..Len(cache) |->
            IF cache[k].key = key THEN [key |-> key, value |-> result] ELSE cache[k]]
    ELSE Append(cache, [key |-> key, value |-> result])

\* A faulty _save_to_cache: nothing is evicted.
save_to_cache_unbounded(cache, key, result) == Put(cache, key, result)

\* _save_to_cache: at capacity the first entry of the dict is removed, then the
\* result is stored.
save_to_cache(cache, key, result) ==
    IF Len(cache) >= max_cache_size THEN Put(Tail(cache), key, result)
    ELSE Put(cache, key, result)

\* What generate_content returns: None (no key, a transport error, no choice),
\* or a text: a JSON object for the requested fields, the JSON value null, or
\* a text that is not JSON; bare or inside a ```json fence.
NoResponse == [fence |-> FALSE, body |-> "none"]
AiResponses ==
    {NoResponse} \cup [fence : BOOLEAN, body : {"object", "null", "invalid"}]

\* The parsing of the response in suggest_fields: {} for no response and for
\* a text that json.loads rejects, else what json.loads returns.  The object
\* of the body "object" has the requested fields with a content each, that
\* of "blank" has them with the empty string, that of "extra" has Definition
\* and Example with a content whatever was requested.
parse_response(word, fields, response) ==
    IF response = NoResponse \/ response.body = "invalid" THEN <<>>
    ELSE IF response.body = "null" THEN None
    ELSE IF response.body = "blank" THEN [f \in Range(fields) |-> ""]
    ELSE IF response.body = "extra"
    THEN [f \in {FIELD_DEFINITION, FIELD_EXAMPLE} |-> "ai:" \o word \o ":" \o f]
    ELSE [f \in Range(fields) |-> "ai:" \o word \o ":" \o f]

\* A faulty suggest_fields: an empty cached result does not count.
suggest_fields_truthy(cache, word, fields, response) ==
    LET cache_key == get_cache_key(word, fields)
        cached_result == get_from_cache(cache, cache_key)
        result == parse_response(word, fields, response)
    IN  IF cached_result # None /\ cached_result # <<>>
        THEN [result |-> cached_result, cache |-> cache, contacted |-> FALSE]
        ELSE [result |-> result, cache |-> save_to_cache(cache, cache_key, result),
              contacted |-> TRUE]

\* suggest_fields: the cached value if there is one that is not None, else
\* the parsed response of the service, which is saved.
suggest_fields(cache, word, fields, response) ==
    LET cache_key == get_cache_key(word, fields)
        cached_result == get_from_cache(cache, cache_key)
        result == parse_response(word, fields, response)
    IN  IF cached_result # None
        THEN [result |-> cached_result, cache |-> cache, contacted |-> FALSE]
        ELSE [result |-> result, cache |-> save_to_cache(cache, cache_key, result),
              contacted |-> TRUE]

\* A call client.suggest_fields(word, fields); `response` is what the service
\* answers if it is asked.
SuggestFields(word, fields, response) ==
    /\ Idle
    /\ \E r \in {suggest_fields(ai_cache, word, fields, response)} :
          /\ ai_cache' = r.cache
          /\ ai_contacts' = IF r.contacted THEN ai_contacts + 1 ELSE ai_contacts
          /\ last_ai' = [called |-> TRUE, word |-> word, fields |-> fields,
                         key |-> get_cache_key(word, fields),
                         contacted |-> r.contacted, result |-> r.result,
                         held |-> \E k \in 1..Len(ai_cache) :
                                    ai_cache[k].key = get_cache_key(word, fields),
                         cached |-> get_from_cache(ai_cache, get_cache_key(word, fields)),
                         size_before |-> Len(ai_cache),
                         oldest |-> IF ai_cache = <<>> THEN NoneStr ELSE ai_cache[1].key]
    /\ UNCHANGED <<ai_fill, fillVars, mapVars, dictVars, ttsVars>>

\* OpenAIClient.clear_cache.
ClearCache ==
    /\ Idle
    /\ ai_cache # <<>>
    /\ ai_cache' = <<>>
    /\ UNCHANGED <<ai_contacts, last_ai, ai_fill, fillVars, mapVars, dictVars, ttsVars>>

(***************************************************************************)
(* 3.  Audio manager                                                       *)
(***************************************************************************)

\* manager._engines, in the dict's order.
EngineNames == <<"sapi5", "edge_tts">>

\* The voices and speeds of the model; a speed is written as the f-string in
\* _generate_filename formats it.
Voices == {"", "Aria"}
Speeds == {"1.0"}

\* The most items of one generate_audio_batch call.
MaxBatch == 3

\* What one engine.generate call, or one task of generate_batch, does: "ok"
\* writes the output file (and generate returns its path), "fail" writes no
\* file (and generate returns None).
SynthOutcomes == {"ok", "fail"}

\* f"{speed}" for a speed of the dialog's spin box, given in tenths: 10 is
\* 1.0, 15 is 1.5.
FormatSpeed(tenths) == ToString(tenths \div 10) \o "." \o ToString(tenths % 10)

\* The content string of _generate_filename; `speed` is the formatted speed.
content(text, engine, voice, speed) ==
    text \o "_" \o engine \o "_" \o voice \o "_" \o speed

\* A faulty _generate_filename: the configured voice in place of the voice it
\* is given.
generate_filename_configured(text, engine, voice, speed) ==
    "easywords_" \o content(text, engine, tts_voice, speed) \o ".mp3"

\* _generate_filename.  The md5 digest of the content string is modelled by
\* the content string itself.
generate_filename(text, engine, voice, speed) ==
    "easywords_" \o content(text, engine, voice, speed) \o ".mp3"

\* get_available_engines, as the list of the available engines' names in the
\* order of _engines.
get_available_engines(avail) == SelectSeq(EngineNames, LAMBDA e : e \in avail)

\* A faulty get_current_engine: the configured engine is taken without asking
\* whether it is available.
get_current_engine_unchecked(configured, avail) ==
    IF configured \in Range(EngineNames) THEN configured
    ELSE IF get_available_engines(avail) # <<>> THEN Head(get_available_engines(avail))
    ELSE NoneStr

\* get_current_engine: the configured engine if it is available, else the first
\* available engine, else None.
get_current_engine(configured, avail) ==
    IF configured \in Range(EngineNames) /\ configured \in avail THEN configured
    ELSE IF get_available_engines(avail) # <<>> THEN Head(get_available_engines(avail))
    ELSE NoneStr

\* engine.generate(text, voice, speed, output_path).
engine_generate(output_path, files, outcome) ==
    IF outcome = "ok"
    THEN [result |-> output_path, files |-> files \cup {output_path}]
    ELSE [result |-> NoneStr, files |-> files]

\* A faulty generate_audio: the existing file is never reused.
generate_audio_no_cache(text, voice, speed, configured, avail, dvoice, dspeed, caching, files, outcome) ==
    LET engine == get_current_engine(configured, avail)
        v == IF voice = NoneStr THEN dvoice ELSE voice
        sp == IF speed = NoneStr THEN dspeed ELSE speed
        filename == generate_filename(text, engine, v, sp)
        g == engine_generate(filename, files, outcome)
    IN  IF engine = NoneStr \/ text = ""
        THEN [result |-> NoneStr, files |-> files, generated |-> 0]
        ELSE IF g.result # NoneStr /\ g.result \in g.files
        THEN [result |-> filename, files |-> g.files, generated |-> 1]
        ELSE [result |-> NoneStr, files |-> g.files, generated |-> 1]

\* generate_audio.  `generated` counts the engine.generate calls made.
generate_audio(text, voice, speed, configured, avail, dvoice, dspeed, caching, files, outcome) ==
    LET engine == get_current_engine(configured, avail)
        v == IF voice = NoneStr THEN dvoice ELSE voice
        sp == IF speed = NoneStr THEN dspeed ELSE speed
        filename == generate_filename(text, engine, v, sp)
        g == engine_generate(filename, files, outcome)
    IN  IF engine = NoneStr \/ text = ""
        THEN [result |-> NoneStr, files |-> files, generated |-> 0]
        ELSE IF caching /\ filename \in files
        THEN [result |-> filename, files |-> files, generated |-> 0]
        ELSE IF g.result # NoneStr /\ g.result \in g.files
        THEN [result |-> filename, files |-> g.files, generated |-> 1]
        ELSE [result |-> NoneStr, files |-> g.files, generated |-> 1]

\* item.get('voice', default_voice) and item.get('speed', default_speed).
ItemVoice(item, dvoice) == IF "voice" \in DOMAIN item THEN item.voice ELSE dvoice
ItemSpeed(item, dspeed) == IF "speed" \in DOMAIN item THEN item.speed ELSE dspeed

\* The pre-processing loop of generate_audio_batch from item i on: an item
\* without text is resolved to None, an item whose file is cached to its
\* filename, the others are queued for generation.  An item's index is its
\* position in the input, counted from 1.
RECURSIVE Preprocess(_, _, _, _, _, _, _, _, _)
Preprocess(i, items, engine, dvoice, dspeed, caching, files, processed, to_generate) ==
    IF i > Len(items) THEN [processed |-> processed, to_generate |-> to_generate]
    ELSE LET item == items[i]
             filename == generate_filename(item.text, engine, ItemVoice(item, dvoice),
                                           ItemSpeed(item, dspeed))
         IN  IF item.text = ""
             THEN Preprocess(i + 1, items, engine, dvoice, dspeed, caching, files,
                             Append(processed, [index |-> i, filename |-> NoneStr]),
                             to_generate)
             ELSE IF caching /\ filename \in files
             THEN Preprocess(i + 1, items, engine, dvoice, dspeed, caching, files,
                             Append(processed, [index |-> i, filename |-> filename]),
                             to_generate)
             ELSE Preprocess(i + 1, items, engine, dvoice, dspeed, caching, files,
                             processed,
                             Append(to_generate, [index |-> i, filename |-> filename]))

\* EdgeTTSEngine.generate_batch: every task runs in one gather; the files of
\* the tasks that succeed exist afterwards, in whatever order they complete.
generate_batch(to_generate, files, outcome) ==
    files \cup {to_generate[k].filename :
                  k \in {j \in 1..Len(to_generate) : outcome[to_generate[j].index] = "ok"}}

\* The sequential fallback of generate_audio_batch: engine.generate per item.
RECURSIVE generate_each(_, _, _)
generate_each(to_generate, files, outcome) ==
    IF to_generate = <<>> THEN files
    ELSE generate_each(Tail(to_generate),
                       engine_generate(Head(to_generate).filename, files,
                                       outcome[Head(to_generate).index]).files,
                       outcome)

\* The 'update results' loop: each generated item is resolved to its filename
\* if its output file exists, else to None.
RECURSIVE UpdateResults(_, _, _)
UpdateResults(to_generate, files, processed) ==
    IF to_generate = <<>> THEN processed
    ELSE UpdateResults(Tail(to_generate), files,
            Append(processed,
                   [index |-> Head(to_generate).index,
                    filename |-> IF Head(to_generate).filename \in files
                                 THEN Head(to_generate).filename ELSE NoneStr]))

\* list.sort(key=index): a stable insertion sort.
RECURSIVE InsertByIndex(_, _)
InsertByIndex(sorted, x) ==
    IF sorted = <<>> THEN <<x>>
    ELSE IF x.index < Head(sorted).index THEN <<x>> \o sorted
    ELSE <<Head(sorted)>> \o InsertByIndex(Tail(sorted), x)

RECURSIVE SortByIndex(_)
SortByIndex(s) ==
    IF s = <<>> THEN <<>>
    ELSE InsertByIndex(SortByIndex(SubSeq(s, 1, Len(s) - 1)), s[Len(s)])

\* The order in which generate_audio_batch returns the processed items.
original_order(processed) == SortByIndex(processed)

\* generate_audio_batch.
generate_audio_batch(items, configured, avail, dvoice, dspeed, caching, files, outcome) ==
    LET engine == get_current_engine(configured, avail)
        pre == Preprocess(1, items, engine, dvoice, dspeed, caching, files, <<>>, <<>>)
        after == IF pre.to_generate = <<>> THEN files
                 ELSE IF engine = "edge_tts"
                 THEN generate_batch(pre.to_generate, files, outcome)
                 ELSE generate_each(pre.to_generate, files, outcome)
        processed == original_order(UpdateResults(pre.to_generate, after, pre.processed))
    IN  IF engine = NoneStr
        THEN [result |-> [i \in 1..Len(items) |-> NoneStr], files |-> files,
              to_generate |-> <<>>]
        ELSE [result |-> [k \in 1..Len(processed) |-> processed[k].filename],
              files |-> after, to_generate |-> pre.to_generate]

NoPin == [set |-> FALSE]

InitTTS ==
    /\ cache_audio = TRUE
    /\ tts_engine = "sapi5"
    /\ tts_voice = ""
    /\ tts_speed = "1.0"
    /\ available \in {{}, {"sapi5"}}
    /\ media = {}
    /\ pinned = NoPin
    /\ last_audio = NoCall

\* A call generate_audio(text, voice, speed).  `repeat` tells whether the
\* pinned earlier call had the same arguments and the same active engine; a
\* call that makes its file may become the pinned one.
GenerateAudio(text, voice, speed, outcome) ==
    LET engine == get_current_engine(tts_engine, available)
        r == generate_audio(text, voice, speed, tts_engine, available, tts_voice,
                            tts_speed, cache_audio, media, outcome)
        this == [set |-> TRUE, text |-> text, voice |-> voice, speed |-> speed,
                 engine |-> engine, filename |-> r.result,
                 dvoice |-> tts_voice, dspeed |-> tts_speed]
        repeat == /\ pinned.set
                  /\ pinned.text = text /\ pinned.voice = voice /\ pinned.speed = speed
                  /\ pinned.engine = engine
    IN  /\ Idle
        /\ media' = r.files
        /\ last_audio' = [called |-> TRUE, fn |-> "generate_audio", text |-> text,
                          voice |-> voice, speed |-> speed, engine |-> engine,
                          caching |-> cache_audio, result |-> r.result,
                          generated |-> r.generated, repeat |-> repeat,
                          first |-> IF repeat THEN pinned ELSE NoPin,
                          dvoice |-> tts_voice, dspeed |-> tts_speed]
        /\ \/ pinned' = pinned
           \/ r.generated = 1 /\ r.result # NoneStr /\ pinned' = this
        /\ UNCHANGED <<aiVars, fillVars, cache_audio, tts_engine, tts_voice, tts_speed, available,
                       mapVars, dictVars>>

\* A call generate_audio_batch(items); outcome[i] is what the synthesis of item
\* i does if it is dispatched.
GenerateAudioBatch(items, outcome) ==
    LET r == generate_audio_batch(items, tts_engine, available, tts_voice, tts_speed,
                                  cache_audio, media, outcome)
    IN  /\ Idle
        /\ media' = r.files
        /\ last_audio' = [called |-> TRUE, fn |-> "generate_audio_batch",
                          items |-> items,
                          engine |-> get_current_engine(tts_engine, available),
                          caching |-> cache_audio, before |-> media,
                          dispatched |-> {r.to_generate[k].index :
                                            k \in 1..Len(r.to_generate)},
                          outcome |-> [i \in {r.to_generate[k].index :
                                                  k \in 1..Len(r.to_generate)}
                                         |-> outcome[i]],
                          result |-> r.result,
                          dvoice |-> tts_voice, dspeed |-> tts_speed]
        /\ UNCHANGED <<aiVars, fillVars, cache_audio, tts_engine, tts_voice, tts_speed, available,
                       pinned, mapVars, dictVars>>

\* A call _generate_filename(text, engine, voice, speed), with the speed in
\* tenths.  The call may become the pinned one, with which later calls are
\* compared.
GenerateFilename(text, engine, voice, speed) ==
    LET this == [set |-> TRUE, text |-> text, engine |-> engine, voice |-> voice,
                 speed |-> speed,
                 filename |-> generate_filename(text, engine, voice, FormatSpeed(speed)),
                 content |-> content(text, engine, voice, FormatSpeed(speed)),
                 dengine |-> tts_engine, dvoice |-> tts_voice, dspeed |-> tts_speed]
    IN  /\ Idle
        /\ last_audio' = [called |-> TRUE, fn |-> "_generate_filename", this |-> this,
                          first |-> pinned]
        /\ pinned' \in {pinned, this}
        /\ UNCHANGED <<aiVars, fillVars, cache_audio, tts_engine, tts_voice, tts_speed, available,
                       media, mapVars, dictVars>>

\* A file of the media folder is deleted from outside the add-on.
DeleteMedia(f) ==
    /\ Idle
    /\ f \in media
    /\ media' = media \ {f}
    /\ pinned' = IF pinned.set /\ pinned.filename = f THEN NoPin ELSE pinned
    /\ UNCHANGED <<aiVars, fillVars, cache_audio, tts_engine, tts_voice, tts_speed, available,
                   last_audio, mapVars, dictVars>>

\* The edge-tts library becomes importable, or stops being so: is_available of
\* the edge_tts engine changes.
ToggleEdgeTTS ==
    /\ Idle
    /\ available' = IF "edge_tts" \in available
                    THEN available \ {"edge_tts"} ELSE available \cup {"edge_tts"}
    /\ UNCHANGED <<aiVars, fillVars, cache_audio, tts_engine, tts_voice, tts_speed, media, pinned,
                   last_audio, mapVars, dictVars>>

(***************************************************************************)
(* 3a.  Notes with field contents                                          *)
(***************************************************************************)

\* The contents a field of a note of the model has before a fill; a Word field
\* may hold blanks around the word, or only a blank.
WordTexts == {"", " ", "cat", " cat "}
OtherTexts == {"", "old"}

\* note.id of a note that has not been added to the collection, and of the
\* one that has.
NoteIds == {0, 7}

\* A note: its id, its note type's name, its field names (in the note type's
\* order, and as the set note.keys() is searched for) and its field contents.
MkNote(id, type, names, fields) ==
    [id |-> id, type |-> type, keys |-> Range(names), names |-> names, fields |-> fields]

\* The notes of the type "Basic" and of the built-in note type.
BasicNotes ==
    {MkNote(id, "Basic", <<"Front", "Back">>, ("Front" :> f) @@ ("Back" :> b)) :
        id \in NoteIds, f \in WordTexts, b \in OtherTexts}

EasyWordsNotes ==
    {MkNote(id, NOTE_TYPE_NAME, FIELD_NAMES,
            (FIELD_WORD :> w) @@ (FIELD_PHONETIC :> p) @@ (FIELD_DEFINITION :> d)
              @@ (FIELD_EXAMPLE :> "") @@ (FIELD_AUDIO :> a)) :
        id \in NoteIds, w \in {"", "cat"}, p \in OtherTexts, d \in OtherTexts,
        a \in OtherTexts}

FillNotes == BasicNotes \cup EasyWordsNotes

\* str.strip() on the contents of the model.
Strip(v) == IF v = " " THEN "" ELSE IF v = " cat " THEN "cat" ELSE v

\* note[field_name] = value.
SetField(note, field_name, value) ==
    [note EXCEPT !.fields = [f \in DOMAIN note.fields |->
                               IF f = field_name THEN value ELSE note.fields[f]]]

\* get_word_from_note: the stripped content of the field mapped to Word, or
\* None without a mapping, without the Word role or without its field.
get_word_from_note(mappings, note) ==
    LET mapping == get_mapped_fields(mappings, note)
    IN  IF ~Truthy(mapping) THEN NoneStr
        ELSE IF FIELD_WORD \in DOMAIN mapping /\ mapping[FIELD_WORD] # ""
                /\ mapping[FIELD_WORD] \in note.keys
        THEN Strip(note.fields[mapping[FIELD_WORD]])
        ELSE NoneStr

\* The playable-media reference f"[sound:{filename}]".
Sound(filename) == "[sound:" \o filename \o "]"

(***************************************************************************)
(* 3b.  Background audio generation and the automatic audio paths          *)
(***************************************************************************)

\* The literal 3 of `retry_count < 3` in both _callback closures.
RetryLimit == 3

\* One call of generate_audio_in_background, as the chain records it: the
\* retry_count of the closure that made it, what the operation returned, and
\* what the completion handler did, in order.
NewCall(retry_count) ==
    [retry_count |-> retry_count, result |-> "<pending>", events |-> <<>>]

\* generate_audio_in_background(note, field_name, text, callback): a QueryOp
\* with the operation and the success handler is queued; nothing else is done
\* in the caller's thread.
generate_audio_in_background(chain, retry_count) ==
    [chain EXCEPT !.state = "queued", !.retry_count = retry_count,
                  !.calls = Append(@, NewCall(retry_count))]

\* A chain that has queued nothing yet.  `second` is what a handler that
\* fires for the chain's note while the chain is under way does.
NewChain(caller, note, field_name, text, editor, callback) ==
    [state |-> "new", caller |-> caller, note |-> note, field |-> field_name,
     text |-> text, editor |-> editor, callback |-> callback, retry_count |-> 0,
     result |-> NoneStr, calls |-> <<>>, done |-> <<>>, flushed |-> <<>>,
     set_field |-> <<>>, second |-> NoBg]

\* A handler that returns before it starts a chain, and why.
Skipped(caller, note, why) ==
    [state |-> "skipped", caller |-> caller, note |-> note, why |-> why]

\* The event appended to the events of the chain's last call.
Event(chain, e) ==
    [chain EXCEPT !.calls[Len(chain.calls)].events = Append(@, e)]

\* _on_done of _maybe_generate_audio_for_note: after a success with a
\* filename, the note is flushed if its id is not 0.
on_done_add(chain, success, filename) ==
    LET c == [chain EXCEPT !.state = "done",
                           !.done = Append(@, [success |-> success, filename |-> filename])]
    IN  IF ~success \/ filename = NoneStr THEN c
        ELSE IF c.note.id # 0 THEN [c EXCEPT !.flushed = Append(@, c.note.id)]
        ELSE c

\* _on_done of on_editor_did_unfocus_field: after a success with a filename,
\* the editor of the note, if one was found, sets the field again.
on_done_unfocus(chain, success, filename) ==
    LET c == [chain EXCEPT !.state = "done",
                           !.done = Append(@, [success |-> success, filename |-> filename])]
    IN  IF success /\ filename # NoneStr /\ c.editor
        THEN [c EXCEPT !.note = SetField(c.note, c.field, Sound(filename)),
                       !.set_field = Append(@, Sound(filename))]
        ELSE c

\* _on_done of the chain's caller.
on_done(chain, success, filename) ==
    IF chain.caller = "add" THEN on_done_add(chain, success, filename)
    ELSE on_done_unfocus(chain, success, filename)

\* A faulty _callback: after a success is reported, the generation is started
\* once more.
callback_goes_on(chain, success, filename) ==
    IF success
    THEN IF chain.retry_count < RetryLimit
         THEN generate_audio_in_background(on_done(chain, TRUE, filename),
                                           chain.retry_count + 1)
         ELSE on_done(chain, TRUE, filename)
    ELSE IF chain.retry_count < RetryLimit
    THEN generate_audio_in_background(chain, chain.retry_count + 1)
    ELSE on_done(chain, FALSE, NoneStr)

\* A faulty _callback: one more failure is retried.
callback_one_more(chain, success, filename) ==
    IF success THEN on_done(chain, TRUE, filename)
    ELSE IF chain.retry_count < RetryLimit + 1
    THEN generate_audio_in_background(chain, chain.retry_count + 1)
    ELSE on_done(chain, FALSE, NoneStr)

\* _callback of _start_generation(retry_count), the same in both handlers: a
\* success ends the chain, a failure starts the next generation while
\* retry_count < 3, and ends the chain with _on_done(False, None) otherwise.
callback(chain, success, filename) ==
    IF success THEN on_done(chain, TRUE, filename)
    ELSE IF chain.retry_count < RetryLimit
    THEN generate_audio_in_background(chain, chain.retry_count + 1)
    ELSE on_done(chain, FALSE, NoneStr)

\* _success(filename) of generate_audio_in_background, on the main thread: with
\* a filename the field is written, and `success` is true if the write did not
\* raise (it raises for a field the note does not have); then the callback, if
\* one was given, is called with (success, filename).
success_handler(chain, filename) ==
    LET written == filename # NoneStr /\ chain.field \in chain.note.keys
        c1 == IF filename = NoneStr THEN chain
              ELSE IF written
              THEN Event([chain EXCEPT !.note = SetField(chain.note, chain.field, Sound(filename))], [ev |-> "write"])
              ELSE Event(chain, [ev |-> "write_failed"])
        c2 == Event(c1, [ev |-> "callback", success |-> written, filename |-> filename])
    IN  IF ~chain.callback THEN [c1 EXCEPT !.state = "done"]
        ELSE IF chain.caller = "direct" THEN [c2 EXCEPT !.state = "done"]
        ELSE callback(c2, written, filename)

\* _start_generation() of either handler: the first generation, retry_count 0.
start_generation(caller, note, field_name, word, editor) ==
    generate_audio_in_background(NewChain(caller, note, field_name, word, editor, TRUE), 0)

\* _maybe_generate_audio_for_note(note): nothing is started without a mapping,
\* without an Audio field in the note, with a non-empty Audio field or without
\* a word.
maybe_generate_audio_for_note(mappings, note) ==
    LET mapping == get_mapped_fields(mappings, note)
        word == get_word_from_note(mappings, note)
    IN  IF ~Truthy(mapping) THEN Skipped("add", note, "mapping")
        ELSE IF FIELD_AUDIO \notin DOMAIN mapping \/ mapping[FIELD_AUDIO] \notin note.keys
        THEN Skipped("add", note, "audio field")
        ELSE IF note.fields[mapping[FIELD_AUDIO]] # "" THEN Skipped("add", note, "audio set")
        ELSE IF word \in {NoneStr, ""} THEN Skipped("add", note, "word")
        ELSE start_generation("add", note, mapping[FIELD_AUDIO], word, FALSE)

\* A call _maybe_generate_audio_for_note(note), as the wrapped addNote and
\* on_add_cards_did_add_note make it.
MaybeGenerateAudioForNote(note) ==
    /\ Idle
    /\ bg' = maybe_generate_audio_for_note(field_mappings, note)
    /\ UNCHANGED <<aiVars, auto_generate_audio_on_add, last_fill, run, mapVars, dictVars, ttsVars>>

\* on_editor_did_unfocus_field(changed, note, current_field_idx); `editor`
\* tells whether an active editor holds the note.  Indexes count from 0.
editor_did_unfocus_field(mappings, auto_audio, changed, note, current_field_idx, editor) ==
    LET mapping == get_mapped_fields(mappings, note)
    IN  IF ~changed THEN Skipped("unfocus", note, "unchanged")
        ELSE IF ~auto_audio THEN Skipped("unfocus", note, "off")
        ELSE IF ~Truthy(mapping) THEN Skipped("unfocus", note, "mapping")
        ELSE IF FIELD_WORD \notin DOMAIN mapping THEN Skipped("unfocus", note, "word role")
        ELSE IF current_field_idx >= Len(note.names) THEN Skipped("unfocus", note, "index")
        ELSE IF note.names[current_field_idx + 1] # mapping[FIELD_WORD]
        THEN Skipped("unfocus", note, "other field")
        ELSE IF FIELD_AUDIO \notin DOMAIN mapping \/ mapping[FIELD_AUDIO] \notin note.keys
        THEN Skipped("unfocus", note, "audio field")
        ELSE IF note.fields[mapping[FIELD_AUDIO]] # "" THEN Skipped("unfocus", note, "audio set")
        ELSE IF Strip(note.fields[mapping[FIELD_WORD]]) = "" THEN Skipped("unfocus", note, "word")
        ELSE start_generation("unfocus", note, mapping[FIELD_AUDIO],
                              Strip(note.fields[mapping[FIELD_WORD]]), editor)

\* The editor_did_unfocus_field hook fires.
EditorDidUnfocusField(changed, note, current_field_idx, editor) ==
    /\ Idle
    /\ bg' = editor_did_unfocus_field(field_mappings, auto_generate_audio_on_add,
                                      changed, note, current_field_idx, editor)
    /\ UNCHANGED <<aiVars, auto_generate_audio_on_add, last_fill, run, mapVars, dictVars, ttsVars>>

\* A call generate_audio_in_background(note, field_name, text, callback) from
\* outside the two handlers; has_callback tells whether a callback is given.
GenerateAudioInBackground(note, field_name, text, has_callback) ==
    /\ Idle
    /\ bg' = generate_audio_in_background(
                 NewChain("direct", note, field_name, text, FALSE, has_callback), 0)
    /\ UNCHANGED <<aiVars, auto_generate_audio_on_add, last_fill, run, mapVars, dictVars, ttsVars>>

\* The queued operation runs in the background thread: _op calls
\* generate_audio(text).  generate_audio reads mw.col.media.dir() once it has an
\* engine and a text; col_open tells whether the collection is still open
\* then.  If it is not, the read raises, and the QueryOp, which has no failure
\* handler, never calls the success handler.
RunOp(outcome, col_open) ==
    LET r == generate_audio(bg.text, NoneStr, NoneStr, tts_engine, available,
                            tts_voice, tts_speed, cache_audio, media, outcome)
        reads_col == get_current_engine(tts_engine, available) # NoneStr /\ bg.text # ""
        n == Len(bg.calls)
    IN  /\ bg.state = "queued"
        /\ IF reads_col /\ ~col_open
           THEN /\ bg' = [bg EXCEPT !.state = "raised", !.calls[n].result = "<raised>"]
                /\ media' = media
           ELSE /\ bg' = [bg EXCEPT !.state = "returned", !.result = r.result,
                                    !.calls[n].result = r.result]
                /\ media' = r.files
        /\ UNCHANGED <<aiVars, auto_generate_audio_on_add, last_fill, run, mapVars, dictVars,
                       cache_audio, tts_engine, tts_voice, tts_speed, available,
                       pinned, last_audio>>

\* The success handler of the operation runs on the main thread.
OpSuccess ==
    /\ bg.state = "returned"
    /\ bg' = success_handler(bg, bg.result)
    /\ UNCHANGED <<aiVars, auto_generate_audio_on_add, last_fill, run, mapVars, dictVars, ttsVars>>

\* The chain of one of the two handlers is under way: an operation is queued,
\* or has returned and its success handler has not run yet.
InFlight == bg.state \in {"queued", "returned"} /\ bg.caller \in {"add", "unfocus"}

\* The user types `value` into the empty target field of the chain's note
\* while the chain is under way.
EditAudioField(value) ==
    /\ InFlight
    /\ bg.field \in bg.note.keys
    /\ bg.note.fields[bg.field] = ""
    /\ bg' = [bg EXCEPT !.note = SetField(@, bg.field, value)]
    /\ UNCHANGED <<aiVars, auto_generate_audio_on_add, last_fill, run, mapVars, dictVars, ttsVars>>

\* _maybe_generate_audio_for_note is called for the chain's note while the
\* chain is under way (the wrapped addNote and on_add_cards_did_add_note fire
\* for the same note, one after the other).
MaybeGenerateAudioAgain ==
    /\ InFlight
    /\ bg.second = NoBg
    /\ bg' = [bg EXCEPT !.second = maybe_generate_audio_for_note(field_mappings, bg.note)]
    /\ UNCHANGED <<aiVars, auto_generate_audio_on_add, last_fill, run, mapVars, dictVars, ttsVars>>

\* The editor_did_unfocus_field hook fires for the chain's note while the
\* chain is under way.
EditorDidUnfocusFieldAgain(changed, current_field_idx, editor) ==
    /\ InFlight
    /\ bg.second = NoBg
    /\ bg' = [bg EXCEPT !.second =
                 editor_did_unfocus_field(field_mappings, auto_generate_audio_on_add,
                                          changed, bg.note, current_field_idx, editor)]
    /\ UNCHANGED <<aiVars, auto_generate_audio_on_add, last_fill, run, mapVars, dictVars, ttsVars>>

(***************************************************************************)
(* 3c.  Filling one note                                                   *)
(***************************************************************************)

\* result.get(key): the value, or nothing for a key the result lacks.
Get(result, key) == IF key \in DOMAIN result THEN result[key] ELSE ""

\* The conditions under which a text role is written: the role's box is
\* checked and the role mapped, its target is a field of the note, the result
\* has a value for it, and the target is empty or may be overwritten.
Writes(note, mapping, role, key, result, enabled, overwrite) ==
    /\ enabled /\ role \in DOMAIN mapping
    /\ mapping[role] \in note.keys /\ Get(result, key) # ""
    /\ (overwrite \/ note.fields[mapping[role]] = "")

\* A faulty fill of one role: the phonetic is written whatever the role.
FillRole_phonetic(note, mapping, role, key, result, enabled, overwrite) ==
    IF Writes(note, mapping, role, key, result, enabled, overwrite)
    THEN SetField(note, mapping[role], Get(result, "phonetic"))
    ELSE note

\* A faulty fill of one role: the content of the target is not looked at.
FillRole_overwrite(note, mapping, role, key, result, enabled, overwrite) ==
    IF Writes(note, mapping, role, key, result, enabled, TRUE)
    THEN SetField(note, mapping[role], Get(result, key))
    ELSE note

\* The fill of one role, as fill_note_fields and BatchDialog.start_processing
\* do it for Phonetic, Definition and Example.  fill_note_fields has no option
\* to leave a role out and never overwrites.
FillRole(note, mapping, role, key, result, enabled, overwrite) ==
    IF Writes(note, mapping, role, key, result, enabled, overwrite)
    THEN SetField(note, mapping[role], Get(result, key))
    ELSE note

\* The three text roles in the order of the code: Phonetic, Definition,
\* Example; nothing is done for a falsy result.
fill_text_fields(note, mapping, result, phonetic_on, definition_on, example_on, overwrite) ==
    LET n1 == FillRole(note, mapping, FIELD_PHONETIC, "phonetic", result, phonetic_on, overwrite)
        n2 == FillRole(n1, mapping, FIELD_DEFINITION, "definition", result, definition_on, overwrite)
        n3 == FillRole(n2, mapping, FIELD_EXAMPLE, "example", result, example_on, overwrite)
    IN  IF Truthy(result) THEN n3 ELSE note

\* The Audio role is mapped to a field of the note that is empty or may be
\* overwritten.
WantsAudio(note, mapping, enabled, overwrite) ==
    /\ enabled /\ FIELD_AUDIO \in DOMAIN mapping
    /\ mapping[FIELD_AUDIO] \in note.keys
    /\ (overwrite \/ note.fields[mapping[FIELD_AUDIO]] = "")

\* A faulty fill_note_fields: the note is flushed whenever flush is asked for.
fill_note_fields_flush_new(mappings, note, flush, result, audio_file) ==
    LET mapping == get_mapped_fields(mappings, note)
        word == get_word_from_note(mappings, note)
        n3 == fill_text_fields(note, mapping, result, TRUE, TRUE, TRUE, FALSE)
        audio == WantsAudio(n3, mapping, TRUE, FALSE)
        n4 == IF audio /\ audio_file # NoneStr
              THEN SetField(n3, mapping[FIELD_AUDIO], Sound(audio_file)) ELSE n3
    IN  IF ~Truthy(mapping) \/ word \in {NoneStr, ""}
        THEN [note |-> note, looked |-> FALSE, audio |-> FALSE, flushed |-> <<>>]
        ELSE [note |-> n4, looked |-> TRUE, audio |-> audio,
              flushed |-> IF flush THEN <<note.id>> ELSE <<>>]

\* A faulty fill_note_fields: a note without a word is still flushed.
fill_note_fields_flush_wordless(mappings, note, flush, result, audio_file) ==
    LET mapping == get_mapped_fields(mappings, note)
        word == get_word_from_note(mappings, note)
        n3 == fill_text_fields(note, mapping, result, TRUE, TRUE, TRUE, FALSE)
        audio == WantsAudio(n3, mapping, TRUE, FALSE)
        n4 == IF audio /\ audio_file # NoneStr
              THEN SetField(n3, mapping[FIELD_AUDIO], Sound(audio_file)) ELSE n3
    IN  IF ~Truthy(mapping)
        THEN [note |-> note, looked |-> FALSE, audio |-> FALSE, flushed |-> <<>>]
        ELSE IF word \in {NoneStr, ""}
        THEN [note |-> note, looked |-> FALSE, audio |-> FALSE,
              flushed |-> IF flush /\ note.id # 0 THEN <<note.id>> ELSE <<>>]
        ELSE [note |-> n4, looked |-> TRUE, audio |-> audio,
              flushed |-> IF flush /\ note.id # 0 THEN <<note.id>> ELSE <<>>]

\* fill_note_fields(note, flush): nothing is done without a mapping or a word;
\* else the word is looked up and the text roles are filled, the audio is
\* generated if the Audio target is empty then, and the note is flushed if
\* flush is asked for and the note's id is not 0.  `result` is what lookup_word
\* returns and audio_file what generate_audio returns; `looked` and `audio`
\* tell whether the two were called, `flushed` lists the ids flushed.
fill_note_fields(mappings, note, flush, result, audio_file) ==
    LET mapping == get_mapped_fields(mappings, note)
        word == get_word_from_note(mappings, note)
        n3 == fill_text_fields(note, mapping, result, TRUE, TRUE, TRUE, FALSE)
        audio == WantsAudio(n3, mapping, TRUE, FALSE)
        n4 == IF audio /\ audio_file # NoneStr
              THEN SetField(n3, mapping[FIELD_AUDIO], Sound(audio_file)) ELSE n3
    IN  IF ~Truthy(mapping) \/ word \in {NoneStr, ""}
        THEN [note |-> note, looked |-> FALSE, audio |-> FALSE, flushed |-> <<>>]
        ELSE [note |-> n4, looked |-> TRUE, audio |-> audio,
              flushed |-> IF flush /\ note.id # 0 THEN <<note.id>> ELSE <<>>]

\* The effects of a fill_note_fields call on the add-on's state, and its
\* observation under the name fn: the lookup and the generation are those of
\* lookup_word(word) and generate_audio(word) in the current state.
Fill(fn, note, flush, loadable, outcome, synth) ==
  \E word \in {get_word_from_note(field_mappings, note)} :
    \E r \in {lookup_word(word, dictionary_mode, parsers, mdx_paths, loadable,
                          online_cache, online_dictionaries, outcome)},
       a \in {generate_audio(word, NoneStr, NoneStr, tts_engine, available, tts_voice,
                             tts_speed, cache_audio, media, synth)} :
      \E f \in {fill_note_fields(field_mappings, note, flush, r.result, a.result)} :
        /\ parsers' = IF f.looked THEN r.table ELSE parsers
        /\ load_failed' = IF f.looked THEN load_failed \cup (Range(r.attempted) \ loadable)
                          ELSE load_failed
        /\ online_cache' = IF f.looked THEN r.cache ELSE online_cache
        /\ media' = IF f.audio THEN a.files ELSE media
        /\ last_fill' = [called |-> TRUE, fn |-> fn, note |-> note, flush |-> flush,
                         overwrite |-> FALSE,
                         mapping |-> get_mapped_fields(field_mappings, note),
                         word |-> word,
                         result |-> IF f.looked THEN r.result ELSE None,
                         looked |-> f.looked, audio |-> f.audio,
                         after |-> f.note, flushed |-> f.flushed]
        /\ UNCHANGED <<aiVars, auto_generate_audio_on_add, bg, run, mapVars, mdx_paths,
                       dictionary_mode, online_dictionaries, online_done, last_lookup,
                       cache_audio, tts_engine, tts_voice, tts_speed, available,
                       pinned, last_audio>>

\* A call fill_note_fields(note, flush).
FillNoteFields(note, flush, loadable, outcome, synth) ==
    /\ Idle
    /\ Fill("fill_note_fields", note, flush, loadable, outcome, synth)

\* fill_current_note(editor), the editor button, for an editor with a note:
\* without a mapping only a tooltip is shown, else the note is filled with
\* flush=False and reloaded.
FillCurrentNote(note, loadable, outcome, synth) ==
    /\ Idle
    /\ IF ~Truthy(get_mapped_fields(field_mappings, note))
       THEN /\ last_fill' = [called |-> TRUE, fn |-> "fill_current_note", note |-> note,
                             flush |-> FALSE, overwrite |-> FALSE, mapping |-> None,
                             word |-> NoneStr, result |-> None, looked |-> FALSE,
                             audio |-> FALSE, after |-> note, flushed |-> <<>>]
            /\ UNCHANGED <<aiVars, auto_generate_audio_on_add, bg, run, mapVars, dictVars, ttsVars>>
       ELSE Fill("fill_current_note", note, FALSE, loadable, outcome, synth)

(***************************************************************************)
(* 3d.  The batch fill of BatchDialog.start_processing                     *)
(***************************************************************************)

\* BATCH_SIZE of phase 2, and the period of the processEvents call of phase 1.
BATCH_SIZE == 20
YieldEvery == 50

\* A faulty slice, one task short: tasks[start:start + BATCH_SIZE - 1].
Chunk_short(tasks, start) ==
    SubSeq(tasks, start + 1,
           IF start + BATCH_SIZE - 1 < Len(tasks) THEN start + BATCH_SIZE - 1
           ELSE Len(tasks))

\* The slice tasks[start:start + BATCH_SIZE]; `start` counts from 0.
Chunk(tasks, start) ==
    SubSeq(tasks, start + 1,
           IF start + BATCH_SIZE < Len(tasks) THEN start + BATCH_SIZE ELSE Len(tasks))

\* A selected note id whose note is not in the collection any more:
\* mw.col.get_note raises for it.
Missing == [missing |-> TRUE]

\* The words of the notes of a batch run.
BatchWords == {"cat", "dog"}

\* The options of the dialog: the four role check boxes and the overwrite
\* check box.
Options(overwrite) ==
    [phonetic |-> TRUE, definition |-> TRUE, example |-> TRUE, audio |-> TRUE,
     overwrite |-> overwrite]

\* The state of the run before the first note.
StartOfRun(table, cache) ==
    [notes_map |-> <<>>, audio_tasks |-> <<>>, notes_to_flush |-> {},
     processed |-> 0, skipped |-> 0, errors |-> 0, yields |-> <<>>,
     mapping_cache |-> <<>>, resolved |-> <<>>,
     table |-> table, cache |-> cache]

\* A faulty loop body: a note with an audio task is queued for the flush at
\* the end of phase 1 too.
fill_in_batch_flush_task(acc, nid, note, mapping, word, r, opts) ==
    LET n1 == FillRole(note, mapping, FIELD_PHONETIC, "phonetic", r.result, opts.phonetic, opts.overwrite)
        n2 == FillRole(n1, mapping, FIELD_DEFINITION, "definition", r.result, opts.definition, opts.overwrite)
        n3 == fill_text_fields(note, mapping, r.result, opts.phonetic, opts.definition,
                               opts.example, opts.overwrite)
        changed == /\ Truthy(r.result)
                   /\ \/ Writes(note, mapping, FIELD_PHONETIC, "phonetic", r.result, opts.phonetic, opts.overwrite)
                      \/ Writes(n1, mapping, FIELD_DEFINITION, "definition", r.result, opts.definition, opts.overwrite)
                      \/ Writes(n2, mapping, FIELD_EXAMPLE, "example", r.result, opts.example, opts.overwrite)
        task == WantsAudio(n3, mapping, opts.audio, opts.overwrite)
    IN  [acc EXCEPT
           !.notes_map = Append(@, n3),
           !.audio_tasks = IF task
                           THEN Append(@, [nid |-> nid, field |-> mapping[FIELD_AUDIO],
                                           text |-> word])
                           ELSE @,
           !.notes_to_flush = IF changed \/ task THEN @ \cup {nid} ELSE @,
           !.processed = IF changed THEN @ + 1 ELSE @,
           !.skipped = IF ~changed /\ ~task THEN @ + 1 ELSE @,
           !.yields = IF nid % YieldEvery = 0 THEN Append(@, nid) ELSE @,
           !.table = r.table, !.cache = r.cache]

\* The part of the phase-1 loop body after the lookup: `note` has the
\* mapping and the word, and lookup_word has returned `r`.
fill_in_batch(acc, nid, note, mapping, word, r, opts) ==
    LET n1 == FillRole(note, mapping, FIELD_PHONETIC, "phonetic", r.result, opts.phonetic, opts.overwrite)
        n2 == FillRole(n1, mapping, FIELD_DEFINITION, "definition", r.result, opts.definition, opts.overwrite)
        n3 == fill_text_fields(note, mapping, r.result, opts.phonetic, opts.definition,
                               opts.example, opts.overwrite)
        changed == /\ Truthy(r.result)
                   /\ \/ Writes(note, mapping, FIELD_PHONETIC, "phonetic", r.result, opts.phonetic, opts.overwrite)
                      \/ Writes(n1, mapping, FIELD_DEFINITION, "definition", r.result, opts.definition, opts.overwrite)
                      \/ Writes(n2, mapping, FIELD_EXAMPLE, "example", r.result, opts.example, opts.overwrite)
        task == WantsAudio(n3, mapping, opts.audio, opts.overwrite)
    IN  [acc EXCEPT
           !.notes_map = Append(@, n3),
           !.audio_tasks = IF task
                           THEN Append(@, [nid |-> nid, field |-> mapping[FIELD_AUDIO],
                                           text |-> word])
                           ELSE @,
           !.notes_to_flush = IF changed THEN @ \cup {nid} ELSE @,
           !.processed = IF changed THEN @ + 1 ELSE @,
           !.skipped = IF ~changed /\ ~task THEN @ + 1 ELSE @,
           !.yields = IF nid % YieldEvery = 0 THEN Append(@, nid) ELSE @,
           !.table = r.table, !.cache = r.cache]

\* A faulty loop body: a note that cannot be fetched is passed over without
\* being counted.
process_note_uncounted(acc, nid, entry, mappings, mode, paths, loadable, dicts, outcome, opts) ==
    LET note == [entry EXCEPT !.id = nid]
        miss == note.type \notin DOMAIN acc.mapping_cache
        cache == IF miss
                 THEN (note.type :> get_mapped_fields(mappings, note)) @@ acc.mapping_cache
                 ELSE acc.mapping_cache
        mapping == cache[note.type]
        seen == [acc EXCEPT !.mapping_cache = cache,
                            !.resolved = IF miss THEN Append(@, note.type) ELSE @]
        word == get_word_from_note(mappings, note)
        read == [seen EXCEPT !.resolved = Append(@, note.type)]
    IN  IF entry = Missing
        THEN [acc EXCEPT !.notes_map = Append(@, Missing)]
        ELSE IF ~Truthy(mapping)
        THEN [seen EXCEPT !.notes_map = Append(@, note), !.skipped = @ + 1]
        ELSE IF word \in {NoneStr, ""}
        THEN [read EXCEPT !.notes_map = Append(@, note), !.skipped = @ + 1]
        ELSE CHOOSE next \in
                {fill_in_batch(read, nid, note, mapping, word, r, opts) :
                   r \in {lookup_word(word, mode, acc.table, paths, loadable, acc.cache,
                                      dicts, outcome)}} : TRUE

\* The body of the phase-1 loop for the note at position nid of the selection
\* (the model's note ids are the positions).  A note that cannot be fetched is
\* an error; a note without mapping or without word is skipped by `continue`,
\* which also passes over the processEvents call at the end of the body; else
\* the word is looked up, the text roles are filled, an audio task is queued if
\* the Audio target is empty or may be overwritten, and processEvents is called
\* after every 50th note.  The mapping is resolved by get_mapped_fields when
\* the note type's name is not in mapping_cache, and once more inside
\* get_word_from_note; `resolved` lists the calls of get_mapped_fields.
process_note(acc, nid, entry, mappings, mode, paths, loadable, dicts, outcome, opts) ==
    LET note == [entry EXCEPT !.id = nid]
        miss == note.type \notin DOMAIN acc.mapping_cache
        cache == IF miss
                 THEN (note.type :> get_mapped_fields(mappings, note)) @@ acc.mapping_cache
                 ELSE acc.mapping_cache
        mapping == cache[note.type]
        seen == [acc EXCEPT !.mapping_cache = cache,
                            !.resolved = IF miss THEN Append(@, note.type) ELSE @]
        word == get_word_from_note(mappings, note)
        read == [seen EXCEPT !.resolved = Append(@, note.type)]
    IN  IF entry = Missing
        THEN [acc EXCEPT !.notes_map = Append(@, Missing), !.errors = @ + 1,
                         !.yields = IF nid % YieldEvery = 0 THEN Append(@, nid) ELSE @]
        ELSE IF ~Truthy(mapping)
        THEN [seen EXCEPT !.notes_map = Append(@, note), !.skipped = @ + 1]
        ELSE IF word \in {NoneStr, ""}
        THEN [read EXCEPT !.notes_map = Append(@, note), !.skipped = @ + 1]
        ELSE CHOOSE next \in
                {fill_in_batch(read, nid, note, mapping, word, r, opts) :
                   r \in {lookup_word(word, mode, acc.table, paths, loadable, acc.cache,
                                      dicts, outcome)}} : TRUE

\* Phase 1: the loop over the selection from position i on.
RECURSIVE phase1(_, _, _, _, _, _, _, _, _, _)
phase1(i, selection, acc, mappings, mode, paths, loadable, dicts, outcome, opts) ==
    IF i > Len(selection) THEN acc
    ELSE CHOOSE end \in
            {phase1(i + 1, selection, next, mappings, mode, paths, loadable, dicts,
                    outcome, opts) :
               next \in {process_note(acc, i, selection[i], mappings, mode, paths,
                                      loadable, dicts, outcome, opts)}} : TRUE

\* A faulty update loop: the filenames are taken from the end of the list.
RECURSIVE update_notes_reversed(_, _, _, _, _)
update_notes_reversed(k, batch, filenames, notes_map, flush_list) ==
    IF k > Len(batch) THEN [notes_map |-> notes_map, flush_list |-> flush_list]
    ELSE IF filenames[Len(batch) + 1 - k] = NoneStr
    THEN update_notes_reversed(k + 1, batch, filenames, notes_map, flush_list)
    ELSE update_notes_reversed(k + 1, batch, filenames,
                      [notes_map EXCEPT ![batch[k].nid] =
                          SetField(@, batch[k].field,
                                   Sound(filenames[Len(batch) + 1 - k]))],
                      Append(flush_list, batch[k].nid))

\* The update loop of one chunk from task k on: the field of a task with a
\* filename is set to the reference, and its note joins the flush list.
RECURSIVE update_notes(_, _, _, _, _)
update_notes(k, batch, filenames, notes_map, flush_list) ==
    IF k > Len(batch) THEN [notes_map |-> notes_map, flush_list |-> flush_list]
    ELSE IF filenames[k] = NoneStr
    THEN update_notes(k + 1, batch, filenames, notes_map, flush_list)
    ELSE update_notes(k + 1, batch, filenames,
                      [notes_map EXCEPT ![batch[k].nid] =
                          SetField(@, batch[k].field, Sound(filenames[k]))],
                      Append(flush_list, batch[k].nid))

\* The flush calls of a flush loop over `list`, as the log of the run has
\* them.
FlushCalls(list, phase) ==
    [k \in 1..Len(list) |-> [call |-> "flush", nid |-> list[k], phase |-> phase]]

\* The flush loop at the end of phase 1, `for nid in notes_to_flush`: one
\* flush call per note id of the set (taken here by increasing id).
RECURSIVE flush_initial(_)
flush_initial(notes_to_flush) ==
    IF notes_to_flush = {} THEN <<>>
    ELSE LET nid == CHOOSE n \in notes_to_flush : \A m \in notes_to_flush : n <= m
         IN  <<nid>> \o flush_initial(notes_to_flush \ {nid})

\* Phase 2: the loop `for i in range(0, total_audio, BATCH_SIZE)` from `start`
\* on.  Each chunk is given to generate_audio_batch; synth[text] is what the
\* synthesis of an item with that text does, and for a chunk whose start is in
\* `raises` the call raises and every filename of the chunk is None.  `log`
\* lists the calls of the run in order: for each chunk the call of
\* generate_audio_batch, with the tasks, the filenames, and the notes before
\* and after the update loop, and then the flush calls of the chunk.
RECURSIVE phase2(_, _, _, _, _, _, _, _, _, _, _, _, _, _)
phase2(start, tasks, notes_map, files, chunks, flushed, log, configured, avail, dvoice, dspeed, caching, synth, raises) ==
    IF start >= Len(tasks)
    THEN [notes_map |-> notes_map, files |-> files, chunks |-> chunks,
          flushed |-> flushed, log |-> log]
    ELSE LET batch == Chunk(tasks, start)
             items == [k \in 1..Len(batch) |-> [text |-> batch[k].text]]
             g == generate_audio_batch(items, configured, avail, dvoice, dspeed, caching,
                                       files, [k \in 1..Len(batch) |-> synth[batch[k].text]])
             raised == start \in raises
             filenames == IF raised THEN [k \in 1..Len(batch) |-> NoneStr] ELSE g.result
             u == update_notes(1, batch, filenames, notes_map, <<>>)
         IN  CHOOSE end \in
                {phase2(start + BATCH_SIZE, tasks, done.notes_map, done.files,
                        Append(chunks, batch), flushed \o done.flush_list,
                        Append(log, [call |-> "generate_audio_batch", batch |-> batch,
                                     raised |-> raised, filenames |-> filenames,
                                     before |-> notes_map, after |-> done.notes_map])
                          \o FlushCalls(done.flush_list, 2),
                        configured, avail, dvoice, dspeed, caching, synth, raises) :
                   done \in {[notes_map |-> u.notes_map, flush_list |-> u.flush_list,
                              files |-> IF raised THEN files ELSE g.files]}} : TRUE

\* A run of BatchDialog.start_processing on the selection, with the check
\* boxes as in `opts`: phase 1, the flush of the notes phase 1 changed,
\* phase 2.  Every configured dictionary file loads.
StartProcessing(selection, opts, synth, raises) ==
  /\ Idle
  /\ \E p1 \in {phase1(1, selection, StartOfRun(parsers, online_cache), field_mappings,
                       dictionary_mode, mdx_paths, Range(mdx_paths), online_dictionaries,
                       [i \in Callable(online_dictionaries) |-> "none"], opts)} :
      \E p2 \in {phase2(0, p1.audio_tasks, p1.notes_map, media, <<>>, <<>>,
                         FlushCalls(flush_initial(p1.notes_to_flush), 1), tts_engine,
                         available, tts_voice, tts_speed, cache_audio, synth, raises)} :
        /\ parsers' = p1.table
        /\ online_cache' = p1.cache
        /\ media' = p2.files
        /\ last_fill' = [called |-> TRUE, fn |-> "start_processing",
                         selection |-> selection, overwrite |-> opts.overwrite,
                         options |-> opts,
                         mappings |-> field_mappings, errors |-> p1.errors,
                         yields |-> p1.yields, audio_tasks |-> p1.audio_tasks,
                         resolved |-> p1.resolved, after1 |-> p1.notes_map,
                         log |-> p2.log,
                         chunks |-> p2.chunks, after |-> p2.notes_map,
                         flushed |-> p1.notes_to_flush \cup Range(p2.flushed)]
        /\ UNCHANGED <<aiVars, auto_generate_audio_on_add, bg, run, mapVars, mdx_paths,
                       dictionary_mode, online_dictionaries, online_done, load_failed, last_lookup,
                       cache_audio, tts_engine, tts_voice, tts_speed, available,
                       pinned, last_audio>>

(***************************************************************************)
(* 3e.  The batch run, note by note                                        *)
(***************************************************************************)

\* The most notes of a selection, and the most notes of it that are gone.
MaxNotes == 51
MaxErrors == 2

\* The notes of a long selection: a note of the built-in type with a word and
\* an empty or a filled Audio field, one without a word, a note of a type
\* without mapping, and the id of a note that is gone.
RunEntries ==
    {n \in FillNotes :
        /\ n.id = 0
        /\ n.type = "Basic" => n.fields["Front"] = "cat" /\ n.fields["Back"] = ""
        /\ n.type = NOTE_TYPE_NAME =>
              /\ n.fields[FIELD_PHONETIC] = "" /\ n.fields[FIELD_DEFINITION] = ""
              /\ (n.fields[FIELD_WORD] = "" => n.fields[FIELD_AUDIO] = "")}
      \cup {Missing}

\* The queued audio tasks, named by their place in the queue.
Tasks(n) == [k \in 1..n |-> k]

\* start_processing begins: nothing is counted yet.  Of the run's lists the
\* model keeps the lengths: i notes have been iterated, `tasks` audio tasks are
\* queued, `since` notes have been iterated since the last processEvents call
\* (or since the start), and `raised` tells whether the last note raised.
BeginRun ==
    /\ Idle
    /\ run' = [phase |-> "lookup", i |-> 0, errors |-> 0, tasks |-> 0, since |-> 0,
               raised |-> FALSE]
    /\ UNCHANGED <<aiVars, auto_generate_audio_on_add, bg, last_fill, mapVars, dictVars, ttsVars>>

\* One iteration of the phase-1 loop, for the next selected note: the loop
\* body of process_note with the dialog's default options, counted.
NextNote(entry) ==
    /\ run.phase = "lookup"
    /\ run.i < MaxNotes
    /\ entry = Missing => run.errors < MaxErrors
    /\ \E p \in {process_note(StartOfRun(parsers, online_cache), run.i + 1, entry,
                               field_mappings, dictionary_mode, mdx_paths,
                               Range(mdx_paths), online_dictionaries,
                               [d \in Callable(online_dictionaries) |-> "none"],
                               Options(FALSE))} :
          /\ run' = [run EXCEPT !.i = @ + 1,
                                !.errors = @ + p.errors,
                                !.tasks = @ + Len(p.audio_tasks),
                                !.since = IF p.yields # <<>> THEN 0 ELSE @ + 1,
                                !.raised = (p.errors # 0)]
          /\ parsers' = p.table
          /\ online_cache' = p.cache
    /\ UNCHANGED <<aiVars, auto_generate_audio_on_add, bg, last_fill, mapVars, mdx_paths,
                   dictionary_mode, online_dictionaries, online_done, load_failed, last_lookup,
                   ttsVars>>

\* The selection has no further note: phase 1 ends, the changed notes are
\* flushed, and phase 2 starts with the queued tasks.
EndOfSelection ==
    /\ run.phase = "lookup"
    /\ run' = [phase |-> "audio", errors |-> run.errors, tasks |-> run.tasks,
               start |-> 0, chunks |-> <<>>]
    /\ UNCHANGED <<aiVars, auto_generate_audio_on_add, bg, last_fill, mapVars, dictVars, ttsVars>>

\* One iteration of the phase-2 loop: the next chunk of the queue is given to
\* generate_audio_batch (every task of these notes has the text "cat"); with
\* `raises` the call raises and is caught.
NextChunk(synth, raises) ==
    /\ run.phase = "audio"
    /\ run.start < run.tasks
    /\ \E batch \in {Chunk(Tasks(run.tasks), run.start)} :
         \E g \in {generate_audio_batch([k \in 1..Len(batch) |-> [text |-> "cat"]],
                                        tts_engine, available, tts_voice, tts_speed,
                                        cache_audio, media,
                                        [k \in 1..Len(batch) |-> synth])} :
            /\ run' = [run EXCEPT !.start = @ + BATCH_SIZE,
                                  !.chunks = Append(@, batch)]
            /\ media' = IF raises THEN media ELSE g.files
    /\ UNCHANGED <<aiVars, auto_generate_audio_on_add, bg, last_fill, mapVars, dictVars,
                   cache_audio, tts_engine, tts_voice, tts_speed, available, pinned,
                   last_audio>>

\* The queue is drained: the run shows its statistics and ends.
EndOfRun ==
    /\ run.phase = "audio"
    /\ run.start >= run.tasks
    /\ run' = [run EXCEPT !.phase = "done"]
    /\ UNCHANGED <<aiVars, auto_generate_audio_on_add, bg, last_fill, mapVars, dictVars, ttsVars>>

(***************************************************************************)
(* 3f.  AI fill of the editor's note                                       *)
(***************************************************************************)

\* The roles ai_fill_current_note asks for, in the order it checks them.
AiRoles == <<FIELD_DEFINITION, FIELD_EXAMPLE>>

\* A call of ai_fill_current_note that returns before it queues a request.
AiSkipped(note, why) == [state |-> "skipped", note |-> note, why |-> why]

\* The mapped roles among AiRoles whose target field of the note is empty.
AiEmptyRoles(mapping, note) ==
    SelectSeq(AiRoles, LAMBDA r : r \in DOMAIN mapping /\ note.fields[mapping[r]] = "")

\* ai_fill_current_note(editor) up to op.run_in_background(); `note` is
\* editor.note, has_key tells whether an API key is configured.  Reading a
\* target field the note does not have raises, and the handler's except
\* clause shows a warning.
ai_fill_current_note(mappings, note, has_key) ==
    LET mapping == get_mapped_fields(mappings, note)
        word == get_word_from_note(mappings, note)
    IN  IF note = None THEN AiSkipped(note, "no note")
        ELSE IF ~has_key THEN AiSkipped(note, "key")
        ELSE IF ~Truthy(mapping) THEN AiSkipped(note, "mapping")
        ELSE IF word \in {NoneStr, ""} THEN AiSkipped(note, "word")
        ELSE IF \E r \in Range(AiRoles) : r \in DOMAIN mapping /\ mapping[r] \notin note.keys
        THEN AiSkipped(note, "raised")
        ELSE IF AiEmptyRoles(mapping, note) = <<>> THEN AiSkipped(note, "filled")
        ELSE [state |-> "pending", note |-> note, word |-> word,
              fields_to_fill |-> AiEmptyRoles(mapping, note),
              target_fields |-> [r \in Range(AiEmptyRoles(mapping, note)) |-> mapping[r]],
              current |-> "requested", other |-> None, other_before |-> None,
              result |-> None, count |-> 0, writes |-> <<>>]

\* The loop of _success over result.items(), the keys in the order of
\* AiRoles: a key of target_fields is written into the editor's current note
\* and counted; the write raises for a field that note does not have, and the
\* rest of the handler is not run.
RECURSIVE write_items(_, _)
write_items(f, items) ==
    IF items = <<>> THEN f
    ELSE LET field_name == Head(items)
             target == f.target_fields[field_name]
             value == f.result[field_name]
             note == IF f.current = "requested" THEN f.note ELSE f.other
             w == [note |-> f.current, role |-> field_name, field |-> target,
                   content |-> value]
         IN  IF field_name \notin DOMAIN f.target_fields
             THEN write_items(f, Tail(items))
             ELSE IF target \notin note.keys THEN [f EXCEPT !.state = "raised"]
             ELSE IF f.current = "requested"
             THEN write_items([f EXCEPT !.note = SetField(f.note, target, value),
                                        !.count = @ + 1,
                                        !.writes = Append(@, w)], Tail(items))
             ELSE write_items([f EXCEPT !.other = SetField(f.other, target, value),
                                        !.count = @ + 1,
                                        !.writes = Append(@, w)], Tail(items))

\* _success(result) of ai_fill_current_note, on the main thread.
ai_success(f) ==
    IF ~Truthy(f.result) THEN [f EXCEPT !.state = "done"]
    ELSE LET items == SelectSeq(AiRoles, LAMBDA r : r \in DOMAIN f.result)
             g == write_items(f, items)
         IN  IF g.state = "raised" THEN g ELSE [g EXCEPT !.state = "done"]

\* The toolbar button calls ai_fill_current_note(editor).
AiFillCurrentNote(note, has_key) ==
    /\ Idle
    /\ ai_fill' = ai_fill_current_note(field_mappings, note, has_key)
    /\ UNCHANGED <<ai_cache, ai_contacts, last_ai, fillVars, mapVars, dictVars, ttsVars>>

\* The editor is given another note (Editor.set_note) while the request is
\* under way.
EditorSetNote(note) ==
    /\ ai_fill.state \in {"pending", "returned"}
    /\ ai_fill.current = "requested"
    /\ ai_fill' = [ai_fill EXCEPT !.current = "other", !.other = note,
                                  !.other_before = note]
    /\ UNCHANGED <<ai_cache, ai_contacts, last_ai, fillVars, mapVars, dictVars, ttsVars>>

\* The queued operation runs in the background thread: _op calls
\* client.suggest_fields(word, fields_to_fill).
AiOp(response) ==
    /\ ai_fill.state = "pending"
    /\ \E r \in {suggest_fields(ai_cache, ai_fill.word, ai_fill.fields_to_fill, response)} :
          /\ ai_cache' = r.cache
          /\ ai_contacts' = IF r.contacted THEN ai_contacts + 1 ELSE ai_contacts
          /\ ai_fill' = [ai_fill EXCEPT !.state = "returned", !.result = r.result]
    /\ UNCHANGED <<last_ai, fillVars, mapVars, dictVars, ttsVars>>

\* The success handler of the operation runs on the main thread.
AiSuccess ==
    /\ ai_fill.state = "returned"
    /\ ai_fill' = ai_success(ai_fill)
    /\ UNCHANGED <<ai_cache, ai_contacts, last_ai, fillVars, mapVars, dictVars, ttsVars>>

(***************************************************************************)
(* 4.  The configuration dialog                                            *)
(***************************************************************************)

\* ConfigDialog.save_config: the path list is saved, reload_dictionaries is
\* called, then the TTS settings, the cache flag and the dictionary mode are
\* saved.
SaveConfig(paths, mode, engine, voice, speed, caching, auto_audio) ==
    /\ Idle
    /\ auto_generate_audio_on_add' = auto_audio
    /\ Len(paths) + Len(online_dictionaries) <= MaxSources
    /\ mdx_paths' = paths
    /\ reload_dictionaries
    /\ tts_engine' = engine
    /\ tts_voice' = voice
    /\ tts_speed' = speed
    /\ cache_audio' = caching
    /\ dictionary_mode' = set_dictionary_mode(mode)
    /\ UNCHANGED <<online_dictionaries, load_failed, available, media, pinned,
                   last_lookup, last_audio, mapVars, bg, last_fill, run, aiVars>>

\* The caller of the last call has read its result; the add-on is idle again.
Return ==
    /\ ~Idle
    /\ bg.state \notin {"queued", "returned"}
    /\ run.phase \in {"none", "done"}
    /\ ai_fill.state \notin {"pending", "returned"}
    /\ ai_fill' = NoAiFill
    /\ last_resolve' = NoCall
    /\ last_lookup' = NoCall
    /\ last_audio' = NoCall
    /\ last_fill' = NoCall
    /\ bg' = NoBg
    /\ run' = NoRun
    /\ last_ai' = NoCall
    /\ UNCHANGED <<ai_cache, ai_contacts, auto_generate_audio_on_add, field_mappings, mdx_paths, dictionary_mode, online_dictionaries,
                   parsers, online_cache, online_done, load_failed, cache_audio, tts_engine,
                   tts_voice, tts_speed, available, media, pinned>>

(***************************************************************************)
(* 5.  Specifications                                                      *)
(***************************************************************************)

\* No fill and no background operation has been started; the
\* automatic audio generation is on by default.
InitFill ==
    /\ auto_generate_audio_on_add = TRUE
    /\ bg = NoBg
    /\ last_fill = NoCall
    /\ run = NoRun
    /\ ai_cache = <<>>
    /\ ai_contacts = 0
    /\ last_ai = NoCall
    /\ ai_fill = NoAiFill

Init == InitMap /\ InitDict /\ InitTTS /\ InitFill

\* The resolver and the dictionary engine do not read the engines' availability:
\* their specifications start on one platform.
InitWindows == Init /\ available = {"sapi5"}

NextMap ==
    \/ \E t \in NoteTypes, m \in RawMappings(MaxMapEntries) : SetFieldMapping(t, m)
    \/ \E n \in Notes : GetMappedFields(n)
    \/ Return

NextDict ==
    \/ \E w \in Words, loadable \in SUBSET (Range(mdx_paths) \ Range(parsers)) :
         \E outcome \in [Callable(online_dictionaries) -> Outcomes] :
            LookupWord(w, loadable, outcome)
    \/ \E w \in Words :
         \E outcome \in [Callable(online_dictionaries) -> Outcomes] :
            LookupWordOnline(w, outcome)
    \/ ReloadDictionaries
    \/ \E path \in Paths : AddMdxPath(path)
    \/ \E path \in Paths : RemoveMdxPath(path)
    \/ \E dicts \in OnlineLists(MaxSources) : SaveOnlineDictionaries(dicts)
    \/ \E paths \in SeqsUpTo(Paths, MaxSources), mode \in DictionaryModes :
         SaveConfig(paths, mode, tts_engine, tts_voice, tts_speed, cache_audio,
                    auto_generate_audio_on_add)
    \/ Return

\* The texts, and the voice and speed arguments, of the generate_audio calls.
AudioTexts == {"", "cat"}
AudioVoices == {NoneStr, "Aria"}
AudioSpeeds == {NoneStr, "1.0"}

NextAudio ==
    \/ \E text \in AudioTexts, voice \in AudioVoices, speed \in AudioSpeeds,
          outcome \in SynthOutcomes : GenerateAudio(text, voice, speed, outcome)
    \/ \E f \in media : DeleteMedia(f)
    \/ ToggleEdgeTTS
    \/ \E engine \in Range(EngineNames), voice \in Voices, speed \in Speeds,
          caching \in BOOLEAN :
         SaveConfig(mdx_paths, dictionary_mode, engine, voice, speed, caching,
                    auto_generate_audio_on_add)
    \/ Return

\* The items of the generate_audio_batch calls: BatchDialog passes 'text' only.
BatchItems == [text : {"", "cat", "dog"}]

NextBatch ==
    \/ \E items \in SeqsUpTo(BatchItems, MaxBatch) :
         \E outcome \in [{i \in 1..Len(items) : items[i].text # ""} -> SynthOutcomes] :
            GenerateAudioBatch(items, outcome)
    \/ \E f \in media : DeleteMedia(f)
    \/ ToggleEdgeTTS
    \/ \E engine \in Range(EngineNames), caching \in BOOLEAN :
         SaveConfig(mdx_paths, dictionary_mode, engine, tts_voice, tts_speed, caching,
                    auto_generate_audio_on_add)
    \/ Return

\* The arguments of the _generate_filename calls; speeds in tenths.
NameTexts == {"cat", "dog"}
SpeedTenths == {10, 15}

NextName ==
    \/ \E text \in NameTexts, engine \in Range(EngineNames), voice \in Voices,
          speed \in SpeedTenths : GenerateFilename(text, engine, voice, speed)
    \/ \E engine \in Range(EngineNames), voice \in Voices, speed \in SpeedTenths :
         SaveConfig(mdx_paths, dictionary_mode, engine, voice, FormatSpeed(speed),
                    cache_audio, auto_generate_audio_on_add)
    \/ Return

SpecName == Init /\ [][NextName]_vars

NextMdx ==
    \/ \E raw \in RawTables, word \in SeqsUpTo(MdxChars, MaxWord) : MdxLookup(raw, word)
    \/ Return

SpecMdx == InitWindows /\ [][NextMdx]_vars

\* The cache is filled up to its capacity and beyond.  The words are numbered;
\* the next word is a new one, and at the first requests and while the cache is
\* full the first words are asked for again.  Only the first words get other answers than a
\* JSON object, and clear_cache is called during the first requests only.
MaxContacts == 258
Warm == 3
AiRequests ==
    {ai_contacts + 1} \cup
      (IF ai_contacts < Warm \/ Len(ai_cache) >= max_cache_size THEN 1..Warm ELSE {})
AiAnswers(n) ==
    IF n < Warm
    THEN {NoResponse} \cup [fence : {FALSE}, body : {"object", "null", "invalid"}]
    ELSE {[fence |-> FALSE, body |-> "object"]}

NextAi ==
    \/ /\ ai_contacts < MaxContacts
       /\ \E n \in AiRequests : \E response \in AiAnswers(n) :
             SuggestFields(ToString(n), <<FIELD_DEFINITION>>, response)
    \/ ai_contacts <= Warm /\ ClearCache
    \/ Return

SpecAi == InitWindows /\ [][NextAi]_vars

\* The role lists of the calls that are compared by their cache keys.
MaxKeyCalls == 2
AiWords == {"cat", "dog"}
AiFieldLists ==
    {<<>>, <<FIELD_DEFINITION>>, <<FIELD_EXAMPLE>>, <<FIELD_DEFINITION, FIELD_EXAMPLE>>,
     <<FIELD_EXAMPLE, FIELD_DEFINITION>>}

NextAiKey ==
    \/ /\ ai_contacts < MaxKeyCalls
       /\ \E word \in AiWords, fields \in AiFieldLists, response \in AiResponses :
             SuggestFields(word, fields, response)
    \/ Return

SpecAiKey == InitWindows /\ [][NextAiKey]_vars

\* Both entry points of the audio manager, with every set of available
\* engines and with a configured engine name that _engines does not have.
NextEngine ==
    \/ /\ Idle
       /\ \E text \in AudioTexts, outcome \in SynthOutcomes :
             GenerateAudio(text, NoneStr, NoneStr, outcome)
    \/ /\ Idle
       /\ \E items \in SeqsUpTo(BatchItems, MaxBatch) :
             \E outcome \in [{i \in 1..Len(items) : items[i].text # ""} -> SynthOutcomes] :
                GenerateAudioBatch(items, outcome)
    \/ \E f \in media : DeleteMedia(f)
    \/ ToggleEdgeTTS
    \/ \E engine \in Range(EngineNames) \cup {"espeak"}, caching \in BOOLEAN :
         SaveConfig(mdx_paths, dictionary_mode, engine, tts_voice, tts_speed, caching,
                    auto_generate_audio_on_add)
    \/ Return

SpecEngine == Init /\ [][NextEngine]_vars

\* The add-on starts with whatever the config file holds under
\* 'dictionary_mode'.
InitStored ==
    /\ InitMap /\ InitTables /\ InitTTS /\ InitFill
    /\ dictionary_mode \in StoredModes
    /\ available = {"sapi5"}

SpecDict  == InitStored /\ [][NextDict]_vars
SpecAudio == Init /\ [][NextAudio]_vars
SpecBatch == Init /\ [][NextBatch]_vars

SpecMap   == InitWindows /\ [][NextMap]_vars

\* The configured mappings of the fill specifications: none, or one for the
\* note type "Basic" as FieldMappingDialog.save_mapping writes it (Word mapped
\* and enabled; two roles may have the same target).
On(target) == [isdict |-> TRUE, target |-> target, enabled |-> TRUE]

FillMappings ==
    { (FIELD_WORD :> On("Front")) @@ (FIELD_DEFINITION :> On("Back")),
      (FIELD_WORD :> On("Front")) @@ (FIELD_PHONETIC :> On("Back"))
         @@ (FIELD_DEFINITION :> On("Back")),
      (FIELD_WORD :> On("Front")) @@ (FIELD_AUDIO :> On("Back")),
      (FIELD_WORD :> On("Front")) @@ (FIELD_DEFINITION :> On("Back"))
         @@ (FIELD_AUDIO :> On("Back")) }

InitMappings ==
    /\ field_mappings \in {<<>>} \cup {("Basic" :> m) : m \in FillMappings}
    /\ last_resolve = NoCall

\* The automatic audio paths and the background generation: no mapping is
\* configured, or the one with an Audio role alone; the notes have a word or
\* none, and an Audio content or none.
InitAuto ==
    /\ InitMappings /\ InitDict /\ InitTTS /\ InitFill
    /\ \A t \in DOMAIN field_mappings : DOMAIN field_mappings[t] = {FIELD_WORD, FIELD_AUDIO}

AutoNotes ==
    {n \in FillNotes :
        /\ n.type = "Basic" => n.fields["Front"] \in {"", " cat "}
        /\ n.type = NOTE_TYPE_NAME =>
              n.fields[FIELD_PHONETIC] = "" /\ n.fields[FIELD_DEFINITION] = ""}

\* The notes of the calls from outside the handlers; they have no Audio field.
DirectNotes == {n \in AutoNotes : n.type = "Basic" /\ n.fields["Front"] = " cat "}

BgRun == \E outcome \in SynthOutcomes, col_open \in BOOLEAN : RunOp(outcome, col_open)

NextAuto ==
    \/ \E note \in AutoNotes : MaybeGenerateAudioForNote(note)
    \/ \E changed \in BOOLEAN, note \in AutoNotes, editor \in BOOLEAN :
         \E idx \in 0..Len(note.names) :
            EditorDidUnfocusField(changed, note, idx, editor)
    \/ \E note \in DirectNotes, field_name \in {"Back", FIELD_AUDIO},
          text \in AudioTexts, has_callback \in BOOLEAN :
         GenerateAudioInBackground(note, field_name, text, has_callback)
    \/ BgRun
    \/ OpSuccess
    \/ \E auto_audio \in BOOLEAN :
         SaveConfig(mdx_paths, dictionary_mode, tts_engine, tts_voice, tts_speed,
                    cache_audio, auto_audio)
    \/ Return

SpecAuto == InitAuto /\ [][NextAuto]_vars

\* The automatic audio paths with what can happen while a chain is under way:
\* the user types into the note, and the handlers fire again for the note.
NextAutoBusy ==
    \/ NextAuto
    \/ EditAudioField("old")
    \/ MaybeGenerateAudioAgain
    \/ /\ InFlight
       /\ \E changed \in BOOLEAN, editor \in BOOLEAN :
            \E idx \in 0..Len(bg.note.names) :
               EditorDidUnfocusFieldAgain(changed, idx, editor)

SpecAutoBusy == InitAuto /\ [][NextAutoBusy]_vars

\* The task manager runs every queued operation, and the main thread's event
\* loop runs the success handler of every operation that has returned.
SpecAutoFair == SpecAuto /\ WF_vars(BgRun) /\ WF_vars(OpSuccess)

\* The AI fill of the editor's note.  The note in the editor has been saved;
\* the note the editor is given while the request is under way is a new one of
\* either note type.  The note type "Basic" has no mapping or Word and
\* Definition mapped.
MaxAiFills == 2
AiNotes ==
    {None} \cup
    {n \in FillNotes :
        /\ n.id = 7
        /\ n.type = "Basic" => n.fields["Front"] \in {"", "cat"}
        /\ n.type = NOTE_TYPE_NAME =>
              n.fields[FIELD_PHONETIC] = "" /\ n.fields[FIELD_AUDIO] = ""}
AiOtherNotes ==
    {n \in FillNotes :
        /\ n.id = 0
        /\ n.type = "Basic" => n.fields["Front"] = "cat" /\ n.fields["Back"] = ""
        /\ n.type = NOTE_TYPE_NAME =>
              /\ n.fields[FIELD_WORD] = "cat" /\ n.fields[FIELD_PHONETIC] = ""
              /\ n.fields[FIELD_AUDIO] = ""}
AiFillResponses ==
    AiResponses \cup [fence : {FALSE}, body : {"blank", "extra"}]

InitAiFill ==
    /\ InitMappings /\ InitDict /\ InitTTS /\ InitFill
    /\ \A t \in DOMAIN field_mappings :
          DOMAIN field_mappings[t] = {FIELD_WORD, FIELD_DEFINITION}

NextAiFill ==
    \/ /\ Idle
       /\ ai_contacts < MaxAiFills
       /\ \E note \in AiNotes, has_key \in BOOLEAN : AiFillCurrentNote(note, has_key)
    \/ \E note \in AiOtherNotes : EditorSetNote(note)
    \/ \E response \in AiFillResponses : AiOp(response)
    \/ AiSuccess
    \/ Return

SpecAiFill == InitAiFill /\ [][NextAiFill]_vars

\* The fill operations.  One dictionary file is configured, or none.
InitLibrary ==
    /\ mdx_paths \in {<<>>, <<"b.mdx">>}
    /\ dictionary_mode = "auto"
    /\ online_dictionaries = <<>>
    /\ parsers = <<>>
    /\ online_cache = <<>>
    /\ online_done = <<>>
    /\ load_failed = {}
    /\ last_lookup = NoCall

\* The selections of the batch runs among the fill operations: at most
\* MaxSelection entries, each a note with a word and an empty or a filled Back
\* or Audio field, or the id of a note that is gone.
MaxSelection == 2

BatchEntries ==
    {n \in FillNotes :
        /\ n.id = 0
        /\ n.type = "Basic" => n.fields["Front"] = "cat"
        /\ n.type = NOTE_TYPE_NAME =>
              /\ n.fields[FIELD_WORD] = "cat" /\ n.fields[FIELD_PHONETIC] = ""
              /\ n.fields[FIELD_DEFINITION] = n.fields[FIELD_AUDIO]}
      \cup {Missing}

InitFills == InitMappings /\ InitLibrary /\ InitTTS /\ InitFill

NextFill ==
    \/ \E note \in FillNotes, flush \in BOOLEAN, synth \in SynthOutcomes,
          loadable \in SUBSET (Range(mdx_paths) \ Range(parsers)) :
         \E outcome \in [Callable(online_dictionaries) -> Outcomes] :
            FillNoteFields(note, flush, loadable, outcome, synth)
    \/ \E note \in FillNotes, synth \in SynthOutcomes,
          loadable \in SUBSET (Range(mdx_paths) \ Range(parsers)) :
         \E outcome \in [Callable(online_dictionaries) -> Outcomes] :
            FillCurrentNote(note, loadable, outcome, synth)
    \/ \E selection \in SeqsUpTo(BatchEntries, MaxSelection), overwrite \in BOOLEAN,
          synth \in SynthOutcomes :
         StartProcessing(selection, Options(overwrite), [w \in BatchWords |-> synth], {})
    \/ \E note \in AutoNotes : MaybeGenerateAudioForNote(note)
    \/ \E changed \in BOOLEAN, note \in AutoNotes, editor \in BOOLEAN :
         \E idx \in 0..Len(note.names) :
            EditorDidUnfocusField(changed, note, idx, editor)
    \/ BgRun
    \/ OpSuccess
    \/ Return

SpecFill == InitFills /\ [][NextFill]_vars

\* The batch dialog on its own, with b.mdx configured, the engine available
\* and no mapping or one with the Audio role.  The notes of a selection: notes of the type "Basic" with the
\* word "cat", "dog" or none and with or without content in "Back", a note of
\* the built-in type with content in the audio field, and a note that cannot
\* be fetched.
MaxTail == 2

Basic(front, back) ==
    MkNote(0, "Basic", <<"Front", "Back">>, ("Front" :> front) @@ ("Back" :> back))

DialogEntries ==
    {Basic("cat", ""), Basic("cat", "old"), Basic("dog", ""), Basic("", ""), Missing}
      \cup {n \in EasyWordsNotes :
              /\ n.id = 0 /\ n.fields[FIELD_WORD] = "cat" /\ n.fields[FIELD_AUDIO] = "old"
              /\ n.fields[FIELD_PHONETIC] = "" /\ n.fields[FIELD_DEFINITION] = ""}

\* Selections of more than BATCH_SIZE notes: BATCH_SIZE - 1 notes "cat" with
\* nothing in "Back", then two more notes.
LongSelections ==
    {[k \in 1..(BATCH_SIZE - 1) |-> Basic("cat", "")] \o tail :
        tail \in [1..2 -> {Basic("cat", ""), Basic("cat", "old"), Basic("dog", "")}]}

\* The check boxes: the three text boxes checked, the audio box as given,
\* the overwrite box either way.
DialogOptions(audio) ==
    [phonetic : {TRUE}, definition : {TRUE}, example : {TRUE}, audio : audio,
     overwrite : BOOLEAN]

InitDialog ==
    /\ InitFills
    /\ "Basic" \in DOMAIN field_mappings => FIELD_AUDIO \in DOMAIN field_mappings["Basic"]
    /\ mdx_paths = <<"b.mdx">>
    /\ available = {"sapi5"}

NextDialog ==
    \/ /\ Idle
       /\ \E selection \in SeqsUpTo(DialogEntries, MaxTail), opts \in DialogOptions(BOOLEAN),
             synth \in [BatchWords -> SynthOutcomes], raises \in SUBSET {0} :
            StartProcessing(selection, opts, synth, raises)
    \/ /\ Idle
       /\ \E selection \in LongSelections, opts \in DialogOptions({TRUE}),
             synth \in [BatchWords -> SynthOutcomes], raises \in SUBSET {0, BATCH_SIZE} :
            StartProcessing(selection, opts, synth, raises)
    \/ Return

SpecDialog == InitDialog /\ [][NextDialog]_vars

\* The batch run note by note: no mapping is configured, the engine is
\* available.
InitRun == InitFills /\ field_mappings = <<>> /\ available = {"sapi5"}

NextRun ==
    \/ BeginRun
    \/ \E entry \in RunEntries : NextNote(entry)
    \/ EndOfSelection
    \/ \E synth \in SynthOutcomes, raises \in BOOLEAN : NextChunk(synth, raises)
    \/ EndOfRun
    \/ Return

SpecRun == InitRun /\ [][NextRun]_vars

(***************************************************************************)
(* 6.  Properties                                                          *)
(***************************************************************************)

\* The raw mapping configured for the note type of the last resolver call.
LastRaw ==
    IF last_resolve.note.type \in DOMAIN field_mappings
    THEN field_mappings[last_resolve.note.type] ELSE <<>>

\* A role the raw mapping holds and has not disabled.
RoleOn(raw, r) == r \in DOMAIN raw /\ (raw[r].isdict => EnabledOf(raw[r]))

\* Every value of the raw mapping is of the enhanced form {target, enabled}.
Structured(raw) == \A r \in DOMAIN raw : raw[r].isdict

\* C1: whenever the mapping configured for the note's type has the Word role
\* missing or disabled, the resolver returns an absent mapping, however many
\* other roles are configured and enabled.
C1_AbsentWithoutWord ==
    (last_resolve.called /\ DOMAIN LastRaw # {} /\ ~RoleOn(LastRaw, FIELD_WORD))
        => last_resolve.result = None

\* C2: for a note type with a configured mapping of the form
\* {role: {target, enabled}}, the resolver's result holds only roles whose
\* configured enabled flag is true, also when every configured role is disabled
\* and the resolver falls through to its name-based fallbacks.
C2_OnlyEnabledRoles ==
    (last_resolve.called /\ DOMAIN LastRaw # {} /\ Structured(LastRaw)
       /\ last_resolve.result # None)
        => \A r \in DOMAIN last_resolve.result : RoleOn(LastRaw, r)


\* The last call was lookup_word, in one of the given modes, for a word.
LookedUp(modes) ==
    /\ last_lookup.called
    /\ last_lookup.fn = "lookup_word"
    /\ last_lookup.mode \in modes
    /\ last_lookup.word # ""

\* The configured paths whose parser is in the table, and those of them whose
\* file has the word.
LoadedSources == {p \in Range(mdx_paths) : p \in Range(parsers)}
SourcesWith(word) == {p \in LoadedSources : word \in Entries(p)}

\* The place of a path in the configured list.
PlaceOf(path) == CHOOSE i \in 1..Len(mdx_paths) :
                    mdx_paths[i] = path /\ \A j \in 1..(i - 1) : mdx_paths[j] # path

\* C3: in auto mode, whenever a loaded local source has the word, the result
\* is a local one, no online adapter is invoked and the online cache is left
\* as it was.
C3_LocalBeforeOnline ==
    (LookedUp({"auto"}) /\ SourcesWith(last_lookup.word) # {})
        => /\ \E p \in SourcesWith(last_lookup.word) :
                last_lookup.result = LocalResult(p, last_lookup.word)
           /\ ~last_lookup.online_called
           /\ last_lookup.invoked = <<>>
           /\ online_cache = last_lookup.cache_before

\* C3's case: an auto-mode lookup answered by a local source while an online
\* adapter was configured, enabled, and had nothing cached for the word.
C3_Witness ==
    /\ LookedUp({"auto"})
    /\ SourcesWith(last_lookup.word) # {}
    /\ Callable(online_dictionaries) # {}
    /\ last_lookup.word \notin DOMAIN online_cache

\* C4: in local and auto mode the local sources are consulted in the order of
\* the configured path list, and the result is that of the first source, in
\* that order, that has the word.
C4_ConfiguredOrder ==
    LookedUp({"local", "auto"})
        => /\ \A j, k \in 1..Len(last_lookup.consulted) :
                j < k => PlaceOf(last_lookup.consulted[j])
                           < PlaceOf(last_lookup.consulted[k])
           /\ SourcesWith(last_lookup.word) # {}
                => \E p \in SourcesWith(last_lookup.word) :
                      /\ \A q \in SourcesWith(last_lookup.word) : PlaceOf(p) <= PlaceOf(q)
                      /\ last_lookup.result = LocalResult(p, last_lookup.word)

\* The last call ran the online loop: lookup_word_online was reached with a
\* word that was not cached.
OnlineMiss ==
    /\ last_lookup.called
    /\ last_lookup.online_called
    /\ last_lookup.word # ""
    /\ last_lookup.word \notin DOMAIN last_lookup.cache_before

\* The entries of the online list whose enabled flag is false.
Disabled == {i \in 1..Len(online_dictionaries) :
               /\ "enabled" \in DOMAIN online_dictionaries[i]
               /\ ~online_dictionaries[i].enabled}

\* C5: on a cache miss the online entries are tried strictly in list order, no
\* entry whose enabled flag is false is invoked, and the result is that of the
\* first enabled adapter with a result, no later adapter being invoked.
C5_OnlineOrder ==
    OnlineMiss
        => LET inv == last_lookup.invoked
               n == Len(inv)
           IN  /\ \A k \in 1..n : inv[k].i \in 1..Len(online_dictionaries) \ Disabled
               /\ \A j, k \in 1..n : j < k => inv[j].i < inv[k].i
               /\ \A k \in 1..(n - 1) : inv[k].did # "hit"
               /\ \A i \in Callable(online_dictionaries) :
                    (n = 0 \/ inv[n].did # "hit" \/ i < inv[n].i)
                        => \E k \in 1..n : inv[k].i = i
               /\ IF n > 0 /\ inv[n].did = "hit"
                  THEN last_lookup.online_result
                         = OnlineResult(online_dictionaries[inv[n].i].type,
                                        last_lookup.word)
                  ELSE last_lookup.online_result = None

\* C5's case: a miss on a list of two enabled adapters and the first one has
\* the word.
C5_Witness ==
    /\ OnlineMiss
    /\ Cardinality(Callable(online_dictionaries)) >= 2
    /\ Len(last_lookup.invoked) = 1
    /\ last_lookup.invoked[1].did = "hit"

TotalFailure ==
    /\ \A p \in Range(last_lookup.returned) : last_lookup.word \notin Entries(p)
    /\ \A k \in 1..Len(last_lookup.invoked) : last_lookup.invoked[k].did # "hit"
    /\ last_lookup.word \in DOMAIN last_lookup.cache_before
         => last_lookup.cache_before[last_lookup.word] = None

C7_OnlineCached ==
    (last_lookup.called /\ last_lookup.online_called /\ last_lookup.prior # {})
        => /\ last_lookup.online_result \in last_lookup.prior
           /\ last_lookup.invoked = <<>>

\* C7's case: a second online lookup of a word that no adapter had the first
\* time, with an enabled adapter configured.
C7_Witness ==
    /\ last_lookup.called
    /\ last_lookup.online_called
    /\ last_lookup.word # ""
    /\ last_lookup.prior = {None}
    /\ Callable(online_dictionaries) # {}

\* C8: after every synchronization the parser table holds at most one instance
\* per path and no instance whose path is not in the configured list, the
\* empty list included.
C8_TableSynced ==
    (last_lookup.called /\ last_lookup.synced)
        => /\ \A j, k \in 1..Len(parsers) : j # k => parsers[j] # parsers[k]
           /\ Range(parsers) \subseteq Range(mdx_paths)


\* The last call was generate_audio_batch.
Batched == last_audio.called /\ last_audio.fn = "generate_audio_batch"

\* The output file of item i of the last batch.
FileOf(i) ==
    generate_filename(last_audio.items[i].text, last_audio.engine,
                      ItemVoice(last_audio.items[i], last_audio.dvoice),
                      ItemSpeed(last_audio.items[i], last_audio.dspeed))

\* The outcome of item i of the last batch: absent without an engine or a
\* text, the filename on a cache hit, and for a dispatched item the filename if
\* the synthesis of the item (or of an item of the batch with the same output
\* file) succeeded, absent if it failed.
OutcomeOf(i) ==
    IF last_audio.engine = NoneStr \/ last_audio.items[i].text = "" THEN NoneStr
    ELSE IF i \notin last_audio.dispatched THEN FileOf(i)
    ELSE IF \E j \in last_audio.dispatched :
               FileOf(j) = FileOf(i) /\ last_audio.outcome[j] = "ok"
    THEN FileOf(i)
    ELSE NoneStr

\* C9: generate_audio_batch returns a list as long as its input in which
\* position i holds the outcome of item i, the filename or absent, for every
\* mix of items without text, cache hits, successful and failed syntheses.
C9_BatchOutcomes ==
    Batched
        => /\ DOMAIN last_audio.result = 1..Len(last_audio.items)
           /\ \A i \in 1..Len(last_audio.items) : last_audio.result[i] = OutcomeOf(i)

\* The last call was generate_audio with caching enabled, repeating the
\* arguments of an earlier call that produced the output file, with the same
\* active engine and the file still there.
Repeated ==
    /\ last_audio.called
    /\ last_audio.fn = "generate_audio"
    /\ last_audio.caching
    /\ last_audio.repeat

\* C10 as claimed: with caching enabled, the second of two generate_audio calls
\* with identical (text, voice, speed) and an unchanged active engine, the
\* first having produced the file and the file not deleted since, makes no
\* synthesis call and returns the same filename.
C10_CacheHit ==
    Repeated
        => /\ last_audio.generated = 0
           /\ last_audio.result = last_audio.first.filename

\* The configured defaults that stand in for the omitted arguments of the last
\* call are those of the earlier call.
SameDefaults ==
    /\ last_audio.voice = NoneStr => last_audio.first.dvoice = last_audio.dvoice
    /\ last_audio.speed = NoneStr => last_audio.first.dspeed = last_audio.dspeed

\* C10, amended: as claimed, provided the configured default voice and speed
\* that stand in for an omitted voice or speed argument are unchanged between
\* the two calls.
C10_CacheHitSameDefaults ==
    (Repeated /\ SameDefaults)
        => /\ last_audio.generated = 0
           /\ last_audio.result = last_audio.first.filename

\* C10's case: a repeated call with the voice left to the configured default,
\* answered from the existing file.
C10_Witness ==
    /\ Repeated
    /\ SameDefaults
    /\ last_audio.voice = NoneStr
    /\ last_audio.result # NoneStr
    /\ last_audio.result \in media

\* A retry chain of one of the two automatic audio paths has been started.
AutoChain ==
    bg.state \in {"queued", "returned", "raised", "done"} /\ bg.caller \in {"add", "unfocus"}

\* The completion handler of the k-th generation of the chain has called the
\* callback with a failure.
FailedCall(k) ==
    /\ k <= Len(bg.calls)
    /\ \E j \in 1..Len(bg.calls[k].events) :
          LET e == bg.calls[k].events[j] IN e.ev = "callback" /\ ~e.success

\* The final handler has been called once, with (False, None).
OneFailure == bg.done = <<[success |-> FALSE, filename |-> NoneStr]>>

\* C11, as stated: on both automatic audio paths, after 3 consecutive failed
\* generations no fourth one is started and the final handler has been called
\* exactly once, with failure.
C11_ThreeAttempts ==
    (AutoChain /\ \A k \in 1..RetryLimit : FailedCall(k))
        => Len(bg.calls) = RetryLimit /\ OneFailure

\* C11, amended: a chain makes at most 4 generations, the first and 3 retries.
\* The final handler is called at most once; it is called with failure exactly
\* when the 4th generation has failed, and then no fifth one is started.
C11_FourAttempts ==
    AutoChain =>
        /\ Len(bg.calls) <= RetryLimit + 1
        /\ Len(bg.done) <= 1
        /\ (\A k \in 1..(RetryLimit + 1) : FailedCall(k))
              => bg.state = "done" /\ OneFailure
        /\ (\E i \in 1..Len(bg.done) : ~bg.done[i].success)
              => \A k \in 1..(RetryLimit + 1) : FailedCall(k)

C11_Witness ==
    /\ AutoChain
    /\ \A k \in 1..(RetryLimit + 1) : FailedCall(k)
    /\ bg.state = "done" /\ OneFailure

\* The places of the events `ev` among the events of the k-th call of
\* generate_audio_in_background.
EventsOf(k, ev) ==
    {j \in 1..Len(bg.calls[k].events) : bg.calls[k].events[j].ev = ev}

\* The k-th call was made with a callback and its operation is queued.
Queued(k) ==
    bg.state = "queued" /\ bg.callback /\ Len(bg.calls) = k

\* The callback of the k-th call has been called exactly once.
Delivered(k) ==
    /\ bg.state \in {"queued", "returned", "raised", "done"}
    /\ k <= Len(bg.calls)
    /\ Cardinality(EventsOf(k, "callback")) = 1

\* What the completion of each call has done: the callback is never called
\* twice, the field holds the reference to the file when the callback runs if
\* and only if the operation returned a filename, and the write comes first.
CompletedAsClaimed ==
    bg.state \in {"queued", "returned", "raised", "done"} /\ bg.callback =>
        \A k \in 1..Len(bg.calls) :
            /\ Cardinality(EventsOf(k, "callback")) <= 1
            /\ \A j \in EventsOf(k, "callback") :
                  /\ bg.calls[k].result \notin {"<pending>", "<raised>"}
                  /\ (EventsOf(k, "write") # {}) <=> (bg.calls[k].result # NoneStr)
                  /\ \A i \in EventsOf(k, "write") : i < j

\* C12, as stated: the callback of every generate_audio_in_background call is
\* eventually called exactly once, whether the operation returns a filename,
\* returns None or fails; the field is set to the reference if and only if a
\* filename was returned, before the callback runs, whatever the note's id.
C12_CallbackOnce ==
    /\ []CompletedAsClaimed
    /\ \A k \in 1..(RetryLimit + 1) : Queued(k) ~> Delivered(k)

\* The last call was a fill_note_fields call that found a mapping and a word.
Filled ==
    /\ last_fill.called /\ last_fill.fn = "fill_note_fields"
    /\ Truthy(last_fill.mapping) /\ last_fill.word \notin {NoneStr, ""}

\* The three text roles in the order the code takes them, and the key of each
\* in a lookup result.
TextRoles == <<FIELD_PHONETIC, FIELD_DEFINITION, FIELD_EXAMPLE>>
KeyOf(role) ==
    IF role = FIELD_PHONETIC THEN "phonetic"
    ELSE IF role = FIELD_DEFINITION THEN "definition" ELSE "example"

\* The k-th text role is mapped to an existing field that was empty before the
\* fill, and the lookup has a value for it.
Fillable(k) ==
    /\ TextRoles[k] \in DOMAIN last_fill.mapping
    /\ last_fill.mapping[TextRoles[k]] \in last_fill.note.keys
    /\ last_fill.note.fields[last_fill.mapping[TextRoles[k]]] = ""
    /\ Get(last_fill.result, KeyOf(TextRoles[k])) # ""

\* The fields of the note that no mapped role other than Word targets, and
\* the field mapped to Word, are as they were.
FrameKept ==
    \A f \in last_fill.note.keys :
        (\/ (FIELD_WORD \in DOMAIN last_fill.mapping /\ last_fill.mapping[FIELD_WORD] = f)
         \/ \A r \in DOMAIN last_fill.mapping \ {FIELD_WORD} : last_fill.mapping[r] # f)
          => last_fill.after.fields[f] = last_fill.note.fields[f]

\* C13, as stated: fill_note_fields writes the resolved value of each of
\* Phonetic, Definition and Example into the role's field if the field exists
\* and is empty and the value is not, and leaves the Word field and the
\* untargeted fields unchanged.
C13_FillWrites ==
    Filled =>
        /\ \A k \in 1..3 :
              Fillable(k) =>
                last_fill.after.fields[last_fill.mapping[TextRoles[k]]]
                    = Get(last_fill.result, KeyOf(TextRoles[k]))
        /\ FrameKept

\* C13, amended: the roles are taken in the order Phonetic, Definition,
\* Example, and a role writes only if its field is still empty when its turn
\* comes: of the roles that share a target, the first one with a value wins.
C13_FillWritesInOrder ==
    Filled =>
        /\ \A k \in 1..3 :
              (/\ Fillable(k)
               /\ \A j \in 1..(k - 1) :
                     Fillable(j) =>
                        last_fill.mapping[TextRoles[j]] # last_fill.mapping[TextRoles[k]])
                => last_fill.after.fields[last_fill.mapping[TextRoles[k]]]
                      = Get(last_fill.result, KeyOf(TextRoles[k]))
        /\ FrameKept

\* The scenario of the specification: Word -> Front, Definition -> Back, Back
\* empty, a definition found.
C13_Witness ==
    /\ Filled
    /\ DOMAIN last_fill.mapping = {FIELD_WORD, FIELD_DEFINITION}
    /\ last_fill.note.fields["Back"] = ""
    /\ last_fill.after.fields["Back"] = "b.mdx:cat"
    /\ last_fill.after.fields["Front"] = last_fill.note.fields["Front"]

\* The fields of the note that one of the roles Phonetic, Definition, Example
\* and Audio targets.
RoleTargets(mapping, note) ==
    {mapping[r] : r \in DOMAIN mapping \ {FIELD_WORD}} \cap note.keys

\* Every targeted field that had content before has the same content after;
\* without a mapping the note is as it was.
KeptContent(mapping, before, after) ==
    IF Truthy(mapping)
    THEN \A f \in RoleTargets(mapping, before) :
            before.fields[f] # "" => after.fields[f] = before.fields[f]
    ELSE after.fields = before.fields

\* The notes a batch run fetched, by their place in the selection.
Fetched == {i \in 1..Len(last_fill.selection) : last_fill.selection[i] # Missing}

\* C14: with overwrite false no fill changes a field that has content.  After
\* fill_note_fields (called directly or by the editor button), and after a
\* batch run with the overwrite box unchecked, every field targeted by
\* Phonetic, Definition, Example or Audio that was non-empty before holds the
\* same value.
C14_NoOverwrite ==
    /\ (last_fill.called /\ last_fill.fn \in {"fill_note_fields", "fill_current_note"})
          => KeptContent(last_fill.mapping, last_fill.note, last_fill.after)
    /\ (last_fill.called /\ last_fill.fn = "start_processing" /\ ~last_fill.overwrite)
          => \A i \in Fetched :
                KeptContent(get_mapped_fields(last_fill.mappings, last_fill.selection[i]),
                            last_fill.selection[i], last_fill.after[i])

\* A batch run with the overwrite box unchecked has left the content of one
\* note's Definition target alone and has filled another note.
C14_Witness ==
    /\ last_fill.called /\ last_fill.fn = "start_processing" /\ ~last_fill.overwrite
    /\ \E i, j \in Fetched :
          LET mapping == get_mapped_fields(last_fill.mappings, last_fill.selection[i])
          IN  /\ Truthy(mapping) /\ FIELD_DEFINITION \in DOMAIN mapping
              /\ last_fill.selection[i].fields[mapping[FIELD_DEFINITION]] = "old"
              /\ last_fill.after[i].fields[mapping[FIELD_DEFINITION]] = "old"
              /\ last_fill.after[j].fields # last_fill.selection[j].fields

\* The last call was fill_note_fields, directly or from the editor button.
SingleFill ==
    last_fill.called /\ last_fill.fn \in {"fill_note_fields", "fill_current_note"}

\* C16: note.flush is never called on a note whose id is 0.  fill_note_fields
\* flushes only if flush is asked for and the id is not 0, the editor button
\* never flushes, the completion handler of the automatic audio path flushes
\* only after a success on a note whose id is not 0, and the notes a batch run
\* flushes have ids.
C16_NeverFlushNew ==
    /\ SingleFill =>
          /\ 0 \notin Range(last_fill.flushed)
          /\ last_fill.flushed # <<>> =>
                last_fill.fn = "fill_note_fields" /\ last_fill.flush /\ last_fill.note.id # 0
    /\ (last_fill.called /\ last_fill.fn = "start_processing") => 0 \notin last_fill.flushed
    /\ AutoChain =>
          /\ 0 \notin Range(bg.flushed)
          /\ bg.flushed # <<>> =>
                /\ bg.note.id # 0
                /\ bg.done = <<[success |-> TRUE, filename |-> bg.result]>>

\* fill_note_fields was asked to flush a note whose id is 0, has filled it and
\* has not flushed it.
C16_Witness ==
    /\ last_fill.called /\ last_fill.fn = "fill_note_fields"
    /\ last_fill.flush /\ last_fill.note.id = 0
    /\ last_fill.after.fields # last_fill.note.fields
    /\ last_fill.flushed = <<>>

\* The tasks of the chunks dispatched so far, in the order of their dispatch.
RECURSIVE Flatten(_)
Flatten(chunks) ==
    IF chunks = <<>> THEN <<>> ELSE Head(chunks) \o Flatten(Tail(chunks))

\* C15: phase 2 dispatches the N queued tasks in ceil(N / 20) calls of
\* generate_audio_batch, in the order of the queue, every chunk but the last
\* with exactly 20 tasks, every task in exactly one chunk.
C15_Chunks ==
    /\ run.phase \in {"audio", "done"} =>
          /\ \A c \in 1..Len(run.chunks) :
                /\ Len(run.chunks[c]) <= BATCH_SIZE /\ run.chunks[c] # <<>>
                /\ c < Len(run.chunks) => Len(run.chunks[c]) = BATCH_SIZE
          /\ Flatten(run.chunks) = SubSeq(Tasks(run.tasks), 1, Len(Flatten(run.chunks)))
    /\ run.phase = "done" =>
          /\ Len(run.chunks) = (run.tasks + BATCH_SIZE - 1) \div BATCH_SIZE
          /\ Flatten(run.chunks) = Tasks(run.tasks)

\* 25 tasks have been dispatched as a chunk of 20 and a chunk of 5.
C15_Witness ==
    /\ run.phase = "done" /\ run.tasks = 25
    /\ Len(run.chunks) = 2
    /\ Len(run.chunks[1]) = 20 /\ Len(run.chunks[2]) = 5

\* C19, as stated: in phase 1 no more than 50 notes in a row are iterated
\* without a processEvents call, whatever the notes, skipped ones included.
C19_YieldEvery50 ==
    run.phase = "lookup" => run.since <= YieldEvery

\* C20: in phase 1 a note that raises is caught: the error count goes up by
\* exactly one, nothing is queued for the note, and the loop goes on with the
\* next note of the selection.
C20_ErrorCounted ==
    [][NextNote(Missing)
          => /\ run'.errors = run.errors + 1
             /\ run'.tasks = run.tasks
             /\ run'.phase = "lookup" /\ run'.i = run.i + 1]_vars

\* A note has raised and was counted, and a later note was filled and has
\* queued its audio task.
C20_Witness ==
    /\ run.phase = "lookup" /\ run.errors = 1 /\ ~run.raised
    /\ run.tasks = run.i - 1 /\ run.i >= 2

\* The components of a recorded _generate_filename call, and the number of
\* components in which two calls differ.
Tuple(c) == <<c.text, c.engine, c.voice, c.speed>>
Differences(a, b) == Cardinality({k \in 1..4 : Tuple(a)[k] # Tuple(b)[k]})

MdxCall == last_lookup.called /\ last_lookup.fn = "MDXParser.lookup"
Normalised == strip(lower(last_lookup.word))
Retried ==
    IF clean(Normalised) \in DOMAIN last_lookup.word_dict
          /\ last_lookup.word_dict[clean(Normalised)] # ""
    THEN last_lookup.word_dict[clean(Normalised)] ELSE NoneStr

\* C18, as stated: the lowercased and trimmed word is matched exactly first,
\* and an existing exact entry takes precedence; the cleaned word is tried
\* only if there is no exact entry.
C18_ExactEntryFirst ==
    (MdxCall /\ Normalised # <<>>) =>
        IF Normalised \in DOMAIN last_lookup.word_dict
        THEN last_lookup.result \in {last_lookup.word_dict[Normalised], NoneStr}
        ELSE last_lookup.result = Retried

\* C18, amended: the lowercased and trimmed word is matched exactly first, and
\* an exact entry with a value that is not empty takes precedence; the cleaned
\* word is tried if there is no exact entry or the exact entry's value is
\* empty.  A word that is empty after trimming finds nothing.
C18_ExactValueFirst ==
    MdxCall =>
        IF Normalised = <<>> THEN last_lookup.result = NoneStr
        ELSE IF Normalised \in DOMAIN last_lookup.word_dict
                   /\ last_lookup.word_dict[Normalised] # ""
        THEN last_lookup.result = last_lookup.word_dict[Normalised]
        ELSE last_lookup.result = Retried

\* "H!" is looked up in a table with an entry "h" and no entry "h!", and the
\* entry "h" is found.
C18_Witness ==
    /\ MdxCall
    /\ last_lookup.word = <<"H", "!">>
    /\ DOMAIN last_lookup.word_dict = {<<"h">>}
    /\ last_lookup.result = "<p>hello</p>"

\* The keys of the AI cache.
AiKeys(cache) == {cache[k].key : k \in 1..Len(cache)}

C30_SharedByKey ==
    last_ai.called =>
        /\ last_ai.held => ~last_ai.contacted /\ last_ai.result = last_ai.cached
        /\ (~last_ai.contacted /\ DOMAIN last_ai.result # {})
              => last_ai.result = [f \in Range(last_ai.fields) |->
                                     "ai:" \o last_ai.word \o ":" \o f]

\* The note of the last single-note fill has no usable word: the mapping has
\* no Word role, or the role's field is not on the note, or the field holds
\* nothing but blanks.
Wordless ==
    \/ FIELD_WORD \notin DOMAIN last_fill.mapping
    \/ last_fill.mapping[FIELD_WORD] \notin last_fill.note.keys
    \/ last_fill.note.fields[last_fill.mapping[FIELD_WORD]] \in {"", " "}

\* C22: a single-note fill of a note for which no mapping can be established,
\* or whose Word field is empty or missing, does nothing: no field is
\* modified, nothing is looked up, no audio is generated, the note is not
\* flushed, and the dictionary tables, the online cache and the media folder
\* stay as they are.
C22_NoWordNoOp ==
    [][(SingleFill' /\ ~last_fill.called /\ (~Truthy(last_fill'.mapping) \/ Wordless'))
          => /\ last_fill'.after = last_fill'.note
             /\ ~last_fill'.looked /\ ~last_fill'.audio
             /\ last_fill'.flushed = <<>>
             /\ UNCHANGED <<parsers, online_cache, media>>]_vars

\* fill_note_fields was asked to flush a saved note whose mapped Word field is
\* blank although a dictionary is configured, and did nothing.
C22_Witness ==
    /\ SingleFill /\ last_fill.fn = "fill_note_fields"
    /\ Truthy(last_fill.mapping) /\ Wordless
    /\ last_fill.flush /\ last_fill.note.id # 0
    /\ mdx_paths # <<>>
    /\ last_fill.after = last_fill.note /\ last_fill.flushed = <<>>

\* The completion handler of the k-th generation of the chain has called the
\* callback with a success.
SucceededCall(k) ==
    /\ k <= Len(bg.calls)
    /\ \E j \in 1..Len(bg.calls[k].events) :
          LET e == bg.calls[k].events[j] IN e.ev = "callback" /\ e.success

\* What a chain of an automatic audio path has done so far: at most 4
\* generations, _on_done at most once, nothing pending once _on_done has run,
\* and a generation that succeeded is the last one and is reported as a
\* success with its filename.
ChainInOrder ==
    AutoChain =>
        /\ Len(bg.calls) <= RetryLimit + 1
        /\ Len(bg.done) <= 1
        /\ bg.done # <<>> => bg.state = "done"
        /\ \A k \in 1..Len(bg.calls) :
              SucceededCall(k) =>
                  /\ k = Len(bg.calls)
                  /\ bg.done = <<[success |-> TRUE, filename |-> bg.calls[k].result]>>

\* C23: the retry chain of every trigger of an automatic audio path ends: if
\* every background generation returns, _on_done is reached, exactly once; a
\* generation that succeeds is reported at once and is the last; and after
\* _on_done nothing more is started.
C23_ChainTerminates ==
    /\ []ChainInOrder
    /\ [][(AutoChain /\ bg.state = "done") => bg' = NoBg]_vars
    /\ (AutoChain /\ bg.state = "queued")
          ~> ((AutoChain /\ bg.state = "done" /\ Len(bg.done) = 1) \/ bg.state = "raised")

\* A chain has ended with a success at its third generation.
C23_Witness ==
    /\ AutoChain /\ bg.state = "done"
    /\ Len(bg.calls) = 3
    /\ FailedCall(1) /\ FailedCall(2) /\ SucceededCall(3)
    /\ Len(bg.done) = 1 /\ bg.done[1].success

\* The last call was a lookup_word that synchronized the parser table.
Synced == last_lookup.called /\ last_lookup.fn = "lookup_word" /\ last_lookup.synced

\* The number of load calls for `path` in the last lookup.
LoadsOf(path) ==
    Cardinality({i \in 1..Len(last_lookup.attempted) : last_lookup.attempted[i] = path})

\* C24: the synchronization of a lookup never loads a path that is in the
\* parser table: a parser is put into the table only by a load, so with the
\* path list unchanged the parser of a loaded path stays in the table, at its
\* place before the parsers loaded later, and serves the later lookups; a
\* path that enters the table is loaded once.
C24_NoReload ==
    Synced =>
        /\ Range(last_lookup.attempted) \cap Range(last_lookup.table_before) = {}
        /\ SelectSeq(last_lookup.table_before, LAMBDA p : p \in Range(mdx_paths))
             = SubSeq(parsers, 1, Cardinality(Range(last_lookup.table_before)
                                               \cap Range(mdx_paths)))
        /\ mdx_paths # <<>> => last_lookup.returned = parsers
        /\ \A p \in Range(parsers) \ Range(last_lookup.table_before) : LoadsOf(p) = 1

\* A lookup with a.mdx loaded before and b.mdx loaded in the call.
C24_Witness ==
    /\ Synced
    /\ mdx_paths = <<"a.mdx", "b.mdx">>
    /\ last_lookup.table_before = <<"a.mdx">>
    /\ last_lookup.attempted = <<"b.mdx">>
    /\ parsers = <<"a.mdx", "b.mdx">>

\* C25: a path whose load has failed is not loaded again by a later lookup of
\* the session.
C25_FailedNeverRetried ==
    [][(~last_lookup.called /\ last_lookup'.called /\ last_lookup'.fn = "lookup_word")
          => Range(last_lookup'.attempted) \cap load_failed = {}]_vars

\* The last call was a run of the batch dialog.
DialogRan == last_fill.called /\ last_fill.fn = "start_processing"

\* Phase 1 has written a text field of the note at position i: the contents
\* before phase 2 differ from those of the selected note (the dictionary's
\* values differ from every content the notes have).
TextWritten(i) ==
    /\ last_fill.selection[i] # Missing
    /\ last_fill.after1[i].fields # last_fill.selection[i].fields

\* The flush calls of the end of phase 1 in the log of the run.
InitialFlushes ==
    {k \in 1..Len(last_fill.log) :
        last_fill.log[k].call = "flush" /\ last_fill.log[k].phase = 1}

\* The calls of generate_audio_batch in the log of the run.
ChunkCalls ==
    {k \in 1..Len(last_fill.log) : last_fill.log[k].call = "generate_audio_batch"}

\* C26: at the end of phase 1 flush is called exactly once on each note of
\* which phase 1 has written a text field, on no other note, and before the
\* first chunk is given to generate_audio_batch.
C26_InitialFlush ==
    DialogRan =>
        /\ \A i \in 1..Len(last_fill.selection) :
              Cardinality({k \in InitialFlushes : last_fill.log[k].nid = i})
                 = IF TextWritten(i) THEN 1 ELSE 0
        /\ \A k \in InitialFlushes : last_fill.log[k].nid \in 1..Len(last_fill.selection)
        /\ \A j \in InitialFlushes, k \in ChunkCalls : j < k

\* A run in which phase 1 has written one note and not another, and phase 2
\* has a chunk.
C26_Witness ==
    /\ DialogRan
    /\ \E i, j \in 1..Len(last_fill.selection) :
          /\ TextWritten(i)
          /\ last_fill.selection[j] # Missing /\ ~TextWritten(j)
    /\ InitialFlushes # {} /\ ChunkCalls # {}

\* The flush calls that follow the generate_audio_batch call at position k of
\* the log, up to the next such call.
FlushesOfChunk(k) ==
    {j \in (k + 1)..Len(last_fill.log) :
        /\ last_fill.log[j].call = "flush" /\ last_fill.log[j].phase = 2
        /\ \A m \in ChunkCalls : m > k => j < m}

\* The filename generate_audio_batch gives for a text whose file exists.
FileOfText(text) ==
    generate_filename(text, get_current_engine(tts_engine, available), tts_voice, tts_speed)

\* What phase 2 does with the chunk at position k of the log: the result at
\* position t belongs to the task at position t; with a filename, the task's
\* field of the task's note holds the reference to it and the note is flushed
\* once; without, the note is as before and is not flushed; so is every note
\* that has no task in the chunk.
ChunkApplied(k) ==
    LET c == last_fill.log[k]
        flushes(nid) == Cardinality({j \in FlushesOfChunk(k) : last_fill.log[j].nid = nid})
        tasked == {c.batch[t].nid : t \in 1..Len(c.batch)}
    IN  /\ Len(c.filenames) = Len(c.batch)
        /\ \A t \in 1..Len(c.batch) :
              LET nid == c.batch[t].nid
              IN  /\ c.filenames[t] \in {NoneStr, FileOfText(c.batch[t].text)}
                  /\ IF c.filenames[t] # NoneStr
                     THEN /\ c.after[nid] = SetField(c.before[nid], c.batch[t].field,
                                                      Sound(c.filenames[t]))
                          /\ flushes(nid) = 1
                     ELSE c.after[nid] = c.before[nid] /\ flushes(nid) = 0
        /\ \A nid \in (1..Len(c.before)) \ tasked :
              c.after[nid] = c.before[nid] /\ flushes(nid) = 0
        /\ c.raised => c.after = c.before /\ FlushesOfChunk(k) = {}

\* C27: in phase 2 the result at position i of a chunk is applied to the task
\* at position i: the audio field is written with the reference and the note
\* is flushed if and only if its own task has a filename; a note whose task
\* failed is neither changed nor flushed, and a chunk whose
\* generate_audio_batch call raises changes and flushes nothing.
C27_ResultToOwnTask ==
    DialogRan => \A k \in ChunkCalls : ChunkApplied(k)

\* A run of two chunks: in the first the tasks of "cat" have a filename and
\* the task of "dog" has none, the call for the second raises.
C27_Witness ==
    /\ DialogRan
    /\ \E j, k \in ChunkCalls :
          LET c == last_fill.log[j]
          IN  /\ j < k /\ last_fill.log[k].raised /\ ~c.raised
              /\ \E t, u \in 1..Len(c.batch) :
                    /\ t < u
                    /\ c.filenames[t] = FileOfText("cat") /\ c.filenames[u] = NoneStr
                    /\ c.after[c.batch[t].nid] # c.before[c.batch[t].nid]

\* The note at position i of the selection has an audio task.
HasTask(i) ==
    \E t \in 1..Len(last_fill.audio_tasks) : last_fill.audio_tasks[t].nid = i

\* C28: phase 1 queues an audio task for a note (that has a mapping and a
\* word) if and only if the audio box is checked, the Audio role is mapped to
\* a field of the note and that field is empty; a note with content in its
\* Audio field gets no task whatever the other boxes are.
C28_TaskIffEmpty ==
    DialogRan =>
        \A i \in 1..Len(last_fill.selection) :
            IF last_fill.selection[i] = Missing THEN ~HasTask(i)
            ELSE LET mapping == get_mapped_fields(last_fill.mappings, last_fill.selection[i])
                     word == get_word_from_note(last_fill.mappings, last_fill.selection[i])
                     note == last_fill.after1[i]
                 IN  IF ~Truthy(mapping) \/ word \in {NoneStr, ""} THEN ~HasTask(i)
                     ELSE HasTask(i) <=>
                             /\ last_fill.options.audio
                             /\ FIELD_AUDIO \in DOMAIN mapping
                             /\ mapping[FIELD_AUDIO] \in note.keys
                             /\ note.fields[mapping[FIELD_AUDIO]] = ""

\* C29: in one run get_mapped_fields is called at most once for each note
\* type name, the reading of the Word field included.
C29_ResolvedOncePerType ==
    DialogRan =>
        \A type \in Range(last_fill.resolved) :
            Cardinality({k \in 1..Len(last_fill.resolved) : last_fill.resolved[k] = type}) <= 1

\* The engine the manager is to use: the configured one if available, else
\* the first available one in the order of _engines, else none.
ActiveEngine ==
    IF tts_engine \in available \cap {"sapi5", "edge_tts"} THEN tts_engine
    ELSE IF "sapi5" \in available THEN "sapi5"
    ELSE IF "edge_tts" \in available THEN "edge_tts"
    ELSE NoneStr

\* C32: generate_audio and generate_audio_batch use the configured engine if
\* it is available, else the first available engine in the order of
\* registration, else none; with no engine generate_audio returns None,
\* generate_audio_batch a list of None as long as its input, and no synthesis
\* is made.
C32_ActiveEngine ==
    /\ (last_audio.called /\ last_audio.fn = "generate_audio") =>
          /\ last_audio.engine = ActiveEngine
          /\ ActiveEngine = NoneStr =>
                last_audio.result = NoneStr /\ last_audio.generated = 0
    /\ Batched =>
          /\ last_audio.engine = ActiveEngine
          /\ ActiveEngine = NoneStr =>
                /\ Len(last_audio.result) = Len(last_audio.items)
                /\ \A i \in 1..Len(last_audio.items) : last_audio.result[i] = NoneStr
                /\ last_audio.dispatched = {}
                /\ media = last_audio.before

\* A batch of three texts with no engine available, sapi5 being configured.
C32_Witness ==
    /\ Batched
    /\ available = {} /\ tts_engine = "sapi5"
    /\ Len(last_audio.items) = 3
    /\ \A i \in 1..3 : last_audio.items[i].text # ""
    /\ last_audio.result = <<NoneStr, NoneStr, NoneStr>>

\* What generate_audio returns for item i of the last batch, called on that
\* item alone in the state before the batch, its synthesis doing `outcome`.
AloneResult(i, outcome) ==
    generate_audio(last_audio.items[i].text, NoneStr, NoneStr, tts_engine, available,
                   last_audio.dvoice, last_audio.dspeed, last_audio.caching,
                   last_audio.before, outcome).result

\* C36: position i of the result of generate_audio_batch is what
\* generate_audio returns for item i alone from the same state and with the
\* same synthesis outcome, filename for filename and None for None.
C36_BatchAgreesWithSingle ==
    Batched =>
        \A i \in 1..Len(last_audio.items) :
            \A outcome \in SynthOutcomes :
                (i \in last_audio.dispatched => outcome = last_audio.outcome[i])
                    => last_audio.result[i] = AloneResult(i, outcome)

\* The last call asked the online sources for a word that was in the online
\* cache.
CachedAsked ==
    /\ last_lookup.called
    /\ last_lookup.fn \in {"lookup_word", "lookup_word_online"}
    /\ last_lookup.online_called
    /\ last_lookup.word \in DOMAIN last_lookup.cache_before

\* reload_dictionaries as a step: both tables are emptied.
Reloaded == parsers' = <<>> /\ online_cache' = <<>>

\* C37: an entry of the online cache, a result or None, outlives every change
\* of the online dictionary list: a lookup of a cached word returns the cached
\* value and calls no adapter whatever the list is now, saving the list leaves
\* the cache as it is, and an entry goes only when reload_dictionaries empties
\* the cache.
C37_CacheOutlivesConfig ==
    /\ [](CachedAsked =>
            /\ last_lookup.online_result = last_lookup.cache_before[last_lookup.word]
            /\ last_lookup.invoked = <<>>
            /\ online_cache = last_lookup.cache_before)
    /\ [][online_dictionaries' # online_dictionaries => online_cache' = online_cache]_vars
    /\ [][\/ \A w \in DOMAIN online_cache :
               w \in DOMAIN online_cache' /\ online_cache'[w] = online_cache[w]
          \/ Reloaded]_vars

\* A lookup of "cat" answered from the cache with the result of the
\* free_dictionary adapter, while the list has no enabled free_dictionary
\* entry and has an enabled adapter that was not asked.
C37_Witness ==
    /\ CachedAsked
    /\ last_lookup.fn = "lookup_word_online"
    /\ last_lookup.word = "cat"
    /\ last_lookup.result = OnlineResult("free_dictionary", "cat")
    /\ \A i \in Callable(online_dictionaries) :
          online_dictionaries[i].type # "free_dictionary"
    /\ Callable(online_dictionaries) # {}
    /\ last_lookup.invoked = <<>>

\* The last call was lookup_word with a non-empty word.
WordLookedUp ==
    /\ last_lookup.called
    /\ last_lookup.fn = "lookup_word"
    /\ last_lookup.word # ""

\* C38: the mode lookup_word works with is local, online or auto, and auto for
\* a stored value that is none of the three; in local mode no online adapter is
\* invoked and the online cache is neither read nor written; in online mode no
\* local source is consulted, loaded or evicted.
C38_ModeIsolates ==
    WordLookedUp =>
        /\ last_lookup.mode \in DictionaryModes
        /\ dictionary_mode \in DictionaryModes => last_lookup.mode = dictionary_mode
        /\ dictionary_mode \notin DictionaryModes => last_lookup.mode = "auto"
        /\ last_lookup.mode = "local" =>
              /\ ~last_lookup.online_called
              /\ last_lookup.invoked = <<>>
              /\ online_cache = last_lookup.cache_before
              /\ last_lookup.synced
        /\ last_lookup.mode = "online" =>
              /\ ~last_lookup.synced
              /\ last_lookup.attempted = <<>>
              /\ last_lookup.consulted = <<>>
              /\ last_lookup.closed = {}
              /\ parsers = last_lookup.table_before
              /\ last_lookup.online_called
        /\ last_lookup.mode = "auto" => last_lookup.synced

\* In local mode a word whose result is in the online cache, and which an
\* enabled adapter could be asked for, gets the fallback result.
C38_Witness ==
    /\ WordLookedUp
    /\ dictionary_mode = "local"
    /\ last_lookup.word \in DOMAIN online_cache
    /\ Truthy(online_cache[last_lookup.word])
    /\ Callable(online_dictionaries) # {}
    /\ last_lookup.result = get_fallback_result(last_lookup.word)

\* The cache holds the empty result {} under `key`.
EmptyHeld(cache, key) ==
    \E k \in 1..Len(cache) : cache[k].key = key /\ cache[k].value = <<>>

\* A step that is a call of suggest_fields.
AiCall == ~last_ai.called /\ last_ai'.called

\* C39: a suggest_fields call that got no usable answer (no key, a failed
\* request, a text that is no JSON) stores its empty result; a later call with
\* the same key returns the empty result without contacting the service and
\* leaves the cache as it is; and the entry stays until it is the oldest of
\* the full cache when a call saves its result, or clear_cache empties the
\* cache.
C39_FailureCached ==
    /\ [][(AiCall /\ last_ai'.contacted /\ last_ai'.result = <<>>)
             => EmptyHeld(ai_cache', last_ai'.key)]_vars
    /\ [][(AiCall /\ EmptyHeld(ai_cache, last_ai'.key))
             => /\ last_ai'.result = <<>>
                /\ ~last_ai'.contacted
                /\ ai_contacts' = ai_contacts
                /\ ai_cache' = ai_cache]_vars
    /\ [][\A k \in 1..Len(ai_cache) :
             ai_cache[k].value = <<>> =>
                \/ EmptyHeld(ai_cache', ai_cache[k].key)
                \/ ai_cache' = <<>> /\ ~AiCall
                \/ /\ k = 1 /\ Len(ai_cache) = max_cache_size
                   /\ AiCall /\ last_ai'.contacted]_vars

\* A call on the full cache is answered with the empty result stored by an
\* earlier failed call, without a request to the service.
C39_Witness ==
    /\ last_ai.called
    /\ last_ai.held /\ last_ai.cached = <<>>
    /\ last_ai.result = <<>> /\ ~last_ai.contacted
    /\ last_ai.size_before = max_cache_size

\* The AI fill has queued its request; the note has not been written yet.
AiRequested == ai_fill.state \in {"pending", "returned"}

\* The roles of the request whose returned content is not empty.
AiUsable ==
    {r \in Range(ai_fill.fields_to_fill) :
        r \in DOMAIN ai_fill.result /\ ai_fill.result[r] # ""}

\* C31, as stated: the AI fill asks for exactly the roles among Definition
\* and Example that are mapped and whose target field is empty at the
\* request, and its completion handler writes exactly the requested roles
\* whose returned content is not empty and counts these and no other.
C31_OnlyRequestedNonEmpty ==
    /\ AiRequested =>
          Range(ai_fill.fields_to_fill) =
             {r \in Range(AiRoles) :
                 /\ r \in DOMAIN get_mapped_fields(field_mappings, ai_fill.note)
                 /\ ai_fill.note.fields[get_mapped_fields(field_mappings, ai_fill.note)[r]] = ""}
    /\ (ai_fill.state = "done" /\ ai_fill.current = "requested" /\ Truthy(ai_fill.result)) =>
          /\ {w.role : w \in Range(ai_fill.writes)} = AiUsable
          /\ ai_fill.count = Cardinality(AiUsable)
    /\ (ai_fill.state = "done" /\ ~Truthy(ai_fill.result)) =>
          ai_fill.writes = <<>> /\ ai_fill.count = 0

\* C33, as stated: if the editor has been given another note between the
\* request and its completion, the completion handler writes nothing into
\* that note.
C33_OnlyRequestedNote ==
    (ai_fill.state \in {"done", "raised"} /\ ai_fill.current = "other") =>
        /\ ai_fill.other = ai_fill.other_before
        /\ \A w \in Range(ai_fill.writes) : w.note = "requested"

\* C34, as stated: the success handler of a background generation that a
\* handler started for a note with an empty Audio field leaves the field as it
\* is if the field is no longer empty when the handler runs.
C34_NoOverwrite ==
    [][(InFlight /\ bg.state = "returned" /\ bg'.state # "returned"
          /\ bg.field \in bg.note.keys /\ bg.note.fields[bg.field] # "")
         => bg'.note.fields[bg.field] = bg.note.fields[bg.field]]_vars

\* C35, as stated: while the chain a handler started for a note is under way,
\* no handler starts a second generation for that note.
C35_OneInFlight ==
    InFlight => bg.second.state # "queued"

=============================================================================
